---- MODULE Spec2Model ----
(***************************************************************************)
(* Model of the asynchronous control-flow helpers of the SDK examples'     *)
(* utilities module (class Utils): batchProcess, retry, timeout and        *)
(* debounce.  Each helper is a state machine whose steps are the points    *)
(* where the single-threaded event loop can interleave other work: the     *)
(* awaits, the settling of caller-supplied promises and the timer          *)
(* callbacks.  Timers are ideal: a timer fires at the instant it is due,   *)
(* time does not advance past a due timer, and events of one instant       *)
(* interleave in any order.                                                *)
(***************************************************************************)
EXTENDS Integers, Sequences, FiniteSets

VARIABLES
    \* ---- Utils.batchProcess ----
    items,        \* the input array (item values)
    concurrency,  \* the concurrency argument
    bpc,          \* position of the async function body
    i,            \* the loop variable
    results,      \* the results array
    batch,        \* 1-based item indices of the current chunk (items.slice)
    task,         \* per item index: state of the promise processor returned
    invoked,      \* per item index: number of times processor was called on it
    allState,     \* state of the Promise.all of the current chunk
    allReason,    \* rejection reason of that Promise.all
    settleOrder,  \* item indices in the order their promises settled
    bthrown,      \* the rejection batchProcess's caller receives
    \* ---- Utils.retry ----
    maxRetries,   \* the maxRetries argument
    baseDelay,    \* the baseDelay argument
    rpc,          \* position of the async function body
    attempt,      \* the loop variable
    lastError,    \* the lastError variable
    calls,        \* number of times operation was invoked
    failures,     \* number of attempts that rejected
    inflight,     \* operation promises not yet settled
    waits,        \* time spent in each Utils.sleep that has returned
    sleepFrom,    \* time at which the current sleep began
    sleepDue,     \* time at which the current sleep's timer is due
    rnow,         \* the clock
    rvalue,       \* the value retry returned
    rthrown,      \* the error retry threw
    \* ---- Utils.timeout ----
    ms,           \* the ms argument
    tpc,          \* "raced" once timeout(promise, ms) has been called
    pstate,       \* state of the promise argument
    pvalue,       \* the value the promise argument fulfils with
    ptime,        \* time at which the promise argument settled
    tarmed,       \* whether the deadline timer is still armed
    tdue,         \* time at which the deadline timer is due
    race,         \* the promise timeout returned (Promise.race)
    racetime,     \* time at which it settled
    tnow,         \* the clock
    \* ---- Utils.debounce ----
    wait,         \* the wait argument
    dpc,          \* "on" for a wrapper created by debounce(func, wait)
    handle,       \* the closure's timeout variable (0 is null, else a timer id)
    timers,       \* the armed timers: id, due time, captured args, invocation
    nextId,       \* the id the next setTimeout returns
    invs,         \* the invocations of the wrapper so far: args and time
    fcalls,       \* the calls of func so far
    dnow,         \* the clock
    \* ---- Utils.throttle ----
    limit,        \* the limit argument
    hpc,          \* "on" for a wrapper created by throttle(func, limit)
    inThrottle,   \* the closure's inThrottle variable
    htimers,      \* the armed unlock timers: id and due time
    hnextId,      \* the id the next setTimeout returns
    hinvs,        \* the invocations of the wrapper so far
    hcalls,       \* the calls of func so far
    hnow,         \* the clock
    \* ---- SteerVaultManager.getVaults ----
    gchain,       \* whether a VaultClient exists for the chainId argument
    glimit,       \* the limit argument
    gpc,          \* position of the async function body
    gapi,         \* outcome of vaultClient.getVaults
    gedges,       \* number of edges in the data the API returned
    gapr,         \* number of edges the APR loop has handled
    gaprlog,      \* outcome of getBlackholeVaultApr for each handled edge
    gresult,      \* the object getVaults returned
    \* ---- SmartPoolWithdrawalManager.withdraw ----
    wshares,      \* params.shares
    wpc,          \* position of the async function body
    wbalance,     \* lpBalance as read from the vault (-1 before the read)
    wamounts,     \* whether calculateOptimalWithdrawAmounts returned amounts
    wprepared,    \* number of prepareWithdrawTx calls
    wsent,        \* number of writeContract calls for the withdrawal
    wresult,      \* the WithdrawalResult returned
    \* ---- SmartPoolDepositManager.deposit ----
    pamount,      \* params.amount0Desired and amount1Desired, per token
    ppc,          \* position of the async function body
    pbalance,     \* token balances read, per token (-1 before the read)
    pallowance,   \* token allowances read, per token (-1 before the read)
    papproval,    \* per token: "none", "sent", "confirmed" or "failed"
    pprepared,    \* number of prepareDepositTx calls
    psent,        \* number of writeContract calls for the deposit
    presult,      \* the DepositResult returned
    \* ---- SteerVaultManager.getAllVaults ----
    achain,       \* whether a VaultClient exists for the chainId argument
    abatch,       \* the batchSize argument
    apc,          \* position of the async function body
    acursor,      \* cursor (0 stands for null)
    ahasMore,     \* hasMore
    aall,         \* allVaults
    atotal,       \* totalFetched
    arequests,    \* the cursor of every getVaults call made, in order
    apages,       \* what every getVaults call delivered, in order
    aresult,      \* the object getAllVaults returned
    \* ---- PerformanceUtils.measureAsync ----
    mtimers,      \* the static timers map: start time per name (-1: no entry)
    mcalls,       \* the measureAsync calls: name, position, fn's and own outcome
    mnow,         \* Date.now()
    \* ---- several debounced and throttled wrappers of one function ----
    xwait,        \* per wrapper: its wait or limit argument
    xhandle,      \* per debounced wrapper: timeout (0 stands for null)
    xlock,        \* per throttled wrapper: inThrottle
    xtimers,      \* the armed timers of all wrappers
    xnextId,      \* the id setTimeout returns next
    xinvs,        \* every invocation of a wrapper: wrapper and time
    xcalls,       \* every call of func: wrapper, invocation, time, outcome
    xactor,       \* the wrapper the last step belonged to (0: none)
    xnow          \* the clock

bvars == <<items, concurrency, bpc, i, results, batch, task, invoked,
           allState, allReason, settleOrder, bthrown>>
rvars == <<maxRetries, baseDelay, rpc, attempt, lastError, calls, failures,
           inflight, waits, sleepFrom, sleepDue, rnow, rvalue, rthrown>>
tvars == <<ms, tpc, pstate, pvalue, ptime, tarmed, tdue, race, racetime, tnow>>
dvars == <<wait, dpc, handle, timers, nextId, invs, fcalls, dnow>>
hvars == <<limit, hpc, inThrottle, htimers, hnextId, hinvs, hcalls, hnow>>
gvars == <<gchain, glimit, gpc, gapi, gedges, gapr, gaprlog, gresult>>
wvars == <<wshares, wpc, wbalance, wamounts, wprepared, wsent, wresult>>
pvars == <<pamount, ppc, pbalance, pallowance, papproval, pprepared, psent, presult>>
avars == <<achain, abatch, apc, acursor, ahasMore, aall, atotal, arequests,
          apages, aresult>>
mvars == <<mtimers, mcalls, mnow>>
xvars == <<xwait, xhandle, xlock, xtimers, xnextId, xinvs, xcalls, xactor, xnow>>
vars == <<bvars, rvars, tvars, dvars, hvars, gvars, wvars, pvars, avars, mvars, xvars>>
notBatch == <<rvars, tvars, dvars, hvars, gvars, wvars, pvars, avars, mvars, xvars>>
notRetry == <<bvars, tvars, dvars, hvars, gvars, wvars, pvars, avars, mvars, xvars>>
notTimeout == <<bvars, rvars, dvars, hvars, gvars, wvars, pvars, avars, mvars, xvars>>
notDebounce == <<bvars, rvars, tvars, hvars, gvars, wvars, pvars, avars, mvars, xvars>>
notThrottle == <<bvars, rvars, tvars, dvars, gvars, wvars, pvars, avars, mvars, xvars>>
notVaults == <<bvars, rvars, tvars, dvars, hvars, wvars, pvars, avars, mvars, xvars>>
notWithdraw == <<bvars, rvars, tvars, dvars, hvars, gvars, pvars, avars, mvars, xvars>>
notDeposit == <<bvars, rvars, tvars, dvars, hvars, gvars, wvars, avars, mvars, xvars>>
notAllVaults == <<bvars, rvars, tvars, dvars, hvars, wvars, pvars, mvars, xvars>>
notMeasure == <<bvars, rvars, tvars, dvars, hvars, gvars, wvars, pvars, avars, xvars>>
notWrappers == <<bvars, rvars, tvars, dvars, hvars, gvars, wvars, pvars, avars, mvars>>

\* ------------------------------------------------------------------------
\* Bounds of the model
MaxItems == 4          \* longest input array
MaxItemValue == 2      \* item values are 1..MaxItemValue
MaxConcurrency == 3    \* largest concurrency argument
MaxNegIndex == 2       \* cap on how far a non-positive step drives the loop index

NoError == [kind |-> "none", of |-> 0]
ItemError(k) == [kind |-> "ItemError", of |-> k]

Min(a, b) == IF a < b THEN a ELSE b
Max(a, b) == IF a > b THEN a ELSE b

RECURSIVE SeqsUpTo(_, _)
SeqsUpTo(S, n) ==
    IF n = 0 THEN {<<>>}
    ELSE LET shorter == SeqsUpTo(S, n - 1)
         IN  shorter \cup {Append(s, x) : s \in shorter, x \in S}

\* ------------------------------------------------------------------------
\* Utils.batchProcess

\* The caller's processor, applied to an item that it processes successfully.
Processor(item) == item * 10

\* Array.prototype.slice(start, end) on an array of length len, as the
\* sequence of 1-based indices it selects (negative arguments count from the
\* end, out-of-range arguments are clamped).
SliceIndices(len, start, end) ==
    LET from == IF start < 0 THEN Max(len + start, 0) ELSE Min(start, len)
        to   == IF end < 0 THEN Max(len + end, 0) ELSE Min(end, len)
        n    == Max(to - from, 0)
    IN  [k \in 1..n |-> from + k]

\* const batch = items.slice(i, i + concurrency)
BatchWrong(idx, c) == SliceIndices(Len(items), idx, idx + c + 1)
Batch(idx, c) == SliceIndices(Len(items), idx, idx + c)

\* The loop increment i += concurrency
NextIndexSkip(idx, c) == idx + c + 1
NextIndex(idx, c) == idx + c

\* The array Promise.all resolves with: the value of each promise of the
\* chunk at the position of that promise, whatever the settling order.
SelectSeq2(s, T) == SelectSeq(s, LAMBDA k : k \in T)
AllValuesByCompletion(b, its, order) ==
    LET inB == {b[k] : k \in 1..Len(b)}
        done == SelectSeq2(order, inB)
    IN  [k \in 1..Len(done) |-> Processor(its[done[k]])]
AllValues(b, its, order) == [k \in 1..Len(b) |-> Processor(its[b[k]])]

\* State of Promise.all over the chunk b given the promises' states: it
\* rejects as soon as one promise rejects and fulfils when all have fulfilled.
AllSettlesAny(b, ts) ==
    IF \E k \in 1..Len(b) : ts[b[k]] = "rejected" THEN "rejected"
    ELSE IF Len(b) = 0 \/ \E k \in 1..Len(b) : ts[b[k]] = "fulfilled" THEN "fulfilled"
    ELSE "pending"
AllSettlesLenient(b, ts) ==
    IF \A k \in 1..Len(b) : ts[b[k]] \in {"fulfilled", "rejected"}
    THEN "fulfilled" ELSE "pending"
AllSettlesWaits(b, ts) ==
    IF \E k \in 1..Len(b) : ts[b[k]] = "pending" THEN "pending"
    ELSE IF \E k \in 1..Len(b) : ts[b[k]] = "rejected" THEN "rejected"
    ELSE "fulfilled"
AllSettles(b, ts) ==
    IF \E k \in 1..Len(b) : ts[b[k]] = "rejected" THEN "rejected"
    ELSE IF \A k \in 1..Len(b) : ts[b[k]] = "fulfilled" THEN "fulfilled"
    ELSE "pending"

\* The reason Promise.all rejects with: that of the first promise to reject;
\* a later rejection of another promise of the chunk does not replace it.
AllReasonLatest(st, prev, k) == ItemError(k)
AllReason(st, prev, k) == IF st = "pending" THEN ItemError(k) ELSE prev

InFlight == Cardinality({k \in DOMAIN task : task[k] = "pending"})

InitBatchVars ==
    /\ items \in SeqsUpTo(1..MaxItemValue, MaxItems)
    /\ concurrency \in (-1)..MaxConcurrency
    /\ bpc = "loop"
    /\ i = 0
    /\ results = <<>>
    /\ batch = <<>>
    /\ task = [k \in 1..Len(items) |-> "idle"]
    /\ invoked = [k \in 1..Len(items) |-> 0]
    /\ allState = "none"
    /\ allReason = NoError
    /\ settleOrder = <<>>
    /\ bthrown = NoError

IdleBatchVars ==
    /\ items = <<>>
    /\ concurrency = 1
    /\ bpc = "off"
    /\ i = 0
    /\ results = <<>>
    /\ batch = <<>>
    /\ task = <<>>
    /\ invoked = <<>>
    /\ allState = "none"
    /\ allReason = NoError
    /\ settleOrder = <<>>
    /\ bthrown = NoError

\* Loop test true: slice the chunk, call processor on each of its items
\* (batch.map(processor)) and await Promise.all of the returned promises.
BatchIterate ==
    /\ bpc = "loop"
    /\ i < Len(items)
    /\ i >= -MaxNegIndex
    /\ LET b == Batch(i, concurrency)
           inB == {b[k] : k \in 1..Len(b)}
       IN  /\ batch' = b
           /\ task' = [k \in DOMAIN task |-> IF k \in inB THEN "pending" ELSE task[k]]
           /\ invoked' = [k \in DOMAIN invoked |->
                            invoked[k] + Cardinality({j \in 1..Len(b) : b[j] = k})]
           /\ allState' = IF Len(b) = 0 THEN "fulfilled" ELSE "pending"
    /\ bpc' = "await"
    /\ UNCHANGED <<items, concurrency, i, results, allReason, settleOrder, bthrown>>
    /\ UNCHANGED notBatch

\* Loop test false: return results.
BatchReturn ==
    /\ bpc = "loop"
    /\ i >= Len(items)
    /\ bpc' = "resolved"
    /\ UNCHANGED <<items, concurrency, i, results, batch, task, invoked,
                   allState, allReason, settleOrder, bthrown>>
    /\ UNCHANGED notBatch

\* The promise processor returned for item k fulfils.
ProcessorResolve(k) ==
    /\ task[k] = "pending"
    /\ task' = [task EXCEPT ![k] = "fulfilled"]
    /\ settleOrder' = Append(settleOrder, k)
    /\ allState' = IF allState = "pending" /\ k \in {batch[j] : j \in 1..Len(batch)}
                   THEN AllSettles(batch, task') ELSE allState
    /\ UNCHANGED <<items, concurrency, bpc, i, results, batch, invoked,
                   allReason, bthrown>>
    /\ UNCHANGED notBatch

\* The promise processor returned for item k rejects.
ProcessorReject(k) ==
    /\ task[k] = "pending"
    /\ task' = [task EXCEPT ![k] = "rejected"]
    /\ settleOrder' = Append(settleOrder, k)
    /\ allState' = IF allState = "pending" /\ k \in {batch[j] : j \in 1..Len(batch)}
                   THEN AllSettles(batch, task') ELSE allState
    /\ allReason' = AllReason(allState, allReason, k)
    /\ UNCHANGED <<items, concurrency, bpc, i, results, batch, invoked, bthrown>>
    /\ UNCHANGED notBatch

\* The await returns the chunk's values: results.push(...batchResults) and
\* the loop increment.
BatchResume ==
    /\ bpc = "await"
    /\ allState = "fulfilled"
    /\ results' = results \o AllValues(batch, items, settleOrder)
    /\ i' = NextIndex(i, concurrency)
    /\ bpc' = "loop"
    /\ allState' = "none"
    /\ UNCHANGED <<items, concurrency, batch, task, invoked, allReason,
                   settleOrder, bthrown>>
    /\ UNCHANGED notBatch

\* The await throws the rejection of Promise.all: nothing catches it, so the
\* promise batchProcess returned rejects with it.
BatchThrow ==
    /\ bpc = "await"
    /\ allState = "rejected"
    /\ bpc' = "rejected"
    /\ bthrown' = allReason
    /\ UNCHANGED <<items, concurrency, i, results, batch, task, invoked,
                   allState, allReason, settleOrder>>
    /\ UNCHANGED notBatch

NextBatch ==
    \/ BatchIterate
    \/ BatchReturn
    \/ \E k \in DOMAIN task : ProcessorResolve(k)
    \/ \E k \in DOMAIN task : ProcessorReject(k)
    \/ BatchResume
    \/ BatchThrow

\* ------------------------------------------------------------------------
\* Utils.retry

MaxRetriesBound == 3   \* largest maxRetries argument
MaxBaseDelay == 2      \* small baseDelay arguments are 0..MaxBaseDelay
MaxOpTime == 1         \* an attempt of the operation takes 0..MaxOpTime time units
DefaultBaseDelay == 1000

\* The caller's operation: the value a successful attempt yields and the
\* error a failing attempt rejects with (distinct per attempt).
OpValue(a) == 100 + a
OpError(a) == [kind |-> "OpError", of |-> a]

RECURSIVE Pow2(_)
Pow2(n) == IF n <= 0 THEN 1 ELSE 2 * Pow2(n - 1)

\* for (let attempt = 0; attempt <= maxRetries; attempt++)
LoopTestStrict(a, m) == a < m
LoopTest(a, m) == a <= m
NextAttempt(a) == a + 1

\* if (attempt === maxRetries)
LastAttemptNever(a, m) == FALSE
LastAttempt(a, m) == a = m

\* lastError = error as Error
Caught(prev, e) == e

\* const delay = baseDelay * Math.pow(2, attempt)
BackoffLinear(b, a) == b * (a + 1)
Backoff(b, a) == b * Pow2(a)

InitRetryVars ==
    /\ maxRetries \in 0..MaxRetriesBound
    /\ baseDelay \in (0..MaxBaseDelay) \cup {DefaultBaseDelay}
    /\ rpc = "loop"
    /\ attempt = 0
    /\ lastError = NoError
    /\ calls = 0
    /\ failures = 0
    /\ inflight = 0
    /\ waits = <<>>
    /\ sleepFrom = 0
    /\ sleepDue = 0
    /\ rnow = 0
    /\ rvalue = 0
    /\ rthrown = NoError

IdleRetryVars ==
    /\ maxRetries = 0 /\ baseDelay = 0 /\ rpc = "off" /\ attempt = 0
    /\ lastError = NoError /\ calls = 0 /\ failures = 0 /\ inflight = 0
    /\ waits = <<>> /\ sleepFrom = 0 /\ sleepDue = 0 /\ rnow = 0
    /\ rvalue = 0 /\ rthrown = NoError

\* The loop head.  Test true: call operation() and await the promise it
\* returns.  Test false: the loop is left and lastError is thrown.
RetryLoopHead ==
    /\ rpc = "loop"
    /\ IF LoopTest(attempt, maxRetries)
       THEN /\ calls' = calls + 1
            /\ inflight' = inflight + 1
            /\ rpc' = "await"
            /\ UNCHANGED rthrown
       ELSE /\ rpc' = "thrown"
            /\ rthrown' = lastError
            /\ UNCHANGED <<calls, inflight>>
    /\ UNCHANGED <<maxRetries, baseDelay, attempt, lastError, failures, waits,
                   sleepFrom, sleepDue, rnow, rvalue>>
    /\ UNCHANGED notRetry

\* The operation's promise fulfils after d time units, but the function goes
\* on with the loop instead of returning.
RetryResolveNoReturn(d) ==
    /\ rpc = "await"
    /\ rnow' = rnow + d
    /\ inflight' = inflight - 1
    /\ rvalue' = OpValue(attempt)
    /\ attempt' = NextAttempt(attempt)
    /\ rpc' = IF LoopTest(attempt', maxRetries) THEN "loop" ELSE "returned"
    /\ UNCHANGED <<maxRetries, baseDelay, lastError, calls, failures, waits,
                   sleepFrom, sleepDue, rthrown>>
    /\ UNCHANGED notRetry

\* The operation's promise fulfils after d time units: return await operation().
RetryResolve(d) ==
    /\ rpc = "await"
    /\ rnow' = rnow + d
    /\ inflight' = inflight - 1
    /\ rvalue' = OpValue(attempt)
    /\ rpc' = "returned"
    /\ UNCHANGED <<maxRetries, baseDelay, attempt, lastError, calls, failures,
                   waits, sleepFrom, sleepDue, rthrown>>
    /\ UNCHANGED notRetry

\* The operation's promise rejects after d time units and the catch block
\* starts Utils.sleep(delay) without awaiting it.
RetryRejectNoAwait(d) ==
    /\ rpc = "await"
    /\ rnow' = rnow + d
    /\ inflight' = inflight - 1
    /\ failures' = failures + 1
    /\ lastError' = Caught(lastError, OpError(attempt))
    /\ IF LastAttempt(attempt, maxRetries)
       THEN /\ rpc' = "thrown"
            /\ rthrown' = lastError'
            /\ UNCHANGED <<sleepFrom, sleepDue, attempt>>
       ELSE /\ rpc' = "loop"
            /\ attempt' = NextAttempt(attempt)
            /\ sleepFrom' = rnow'
            /\ sleepDue' = rnow' + Backoff(baseDelay, attempt)
            /\ UNCHANGED rthrown
    /\ UNCHANGED <<maxRetries, baseDelay, calls, waits, rvalue>>
    /\ UNCHANGED notRetry

\* The operation's promise rejects after d time units: the catch block.  On
\* the last attempt the error is rethrown, otherwise Utils.sleep(delay) is
\* awaited.
RetryReject(d) ==
    /\ rpc = "await"
    /\ rnow' = rnow + d
    /\ inflight' = inflight - 1
    /\ failures' = failures + 1
    /\ lastError' = Caught(lastError, OpError(attempt))
    /\ IF LastAttempt(attempt, maxRetries)
       THEN /\ rpc' = "thrown"
            /\ rthrown' = lastError'
            /\ UNCHANGED <<sleepFrom, sleepDue>>
       ELSE /\ rpc' = "sleep"
            /\ sleepFrom' = rnow'
            /\ sleepDue' = rnow' + Backoff(baseDelay, attempt)
            /\ UNCHANGED rthrown
    /\ UNCHANGED <<maxRetries, baseDelay, attempt, calls, waits, rvalue>>
    /\ UNCHANGED notRetry

\* The timer of Utils.sleep fires when it is due; the loop increment follows.
RetryWake ==
    /\ rpc = "sleep"
    /\ rnow' = sleepDue
    /\ waits' = Append(waits, rnow' - sleepFrom)
    /\ attempt' = NextAttempt(attempt)
    /\ rpc' = "loop"
    /\ UNCHANGED <<maxRetries, baseDelay, lastError, calls, failures, inflight,
                   sleepFrom, sleepDue, rvalue, rthrown>>
    /\ UNCHANGED notRetry

NextRetry ==
    \/ RetryLoopHead
    \/ \E d \in 0..MaxOpTime : RetryResolve(d)
    \/ \E d \in 0..MaxOpTime : RetryReject(d)
    \/ RetryWake

\* ------------------------------------------------------------------------
\* Utils.timeout

MaxMs == 3             \* largest ms argument
MaxPromiseValue == 2   \* the promise argument fulfils with 1..MaxPromiseValue
MaxTimeoutClock == 4   \* the clock of the timeout model stops here

PromiseError == [kind |-> "PromiseError", of |-> 0]
\* new Error(`Operation timed out after ${ms}ms`)
TimeoutError(m) == [kind |-> "Timeout", of |-> m]

Pending == [state |-> "pending", value |-> 0, error |-> NoError]
Fulfilled(v) == [state |-> "fulfilled", value |-> v, error |-> NoError]
Rejected(e) == [state |-> "rejected", value |-> 0, error |-> e]

\* Promise.race: the returned promise takes the outcome of the first of its
\* inputs to settle; once settled, later settlements do not change it.
RaceSettleLast(cur, outcome) == outcome
RaceSettle(cur, outcome) == IF cur.state = "pending" THEN outcome ELSE cur

\* setTimeout(() => reject(...), ms): the delay of the deadline timer
DeadlineEarly(m) == m - 1
Deadline(m) == m

\* The state right after timeout(promise, ms) was called at time 0 on a
\* promise that is pending or already settled: the deadline timer is armed
\* and the race has taken the outcome of an already settled promise.
InitTimeoutVars ==
    /\ ms \in 1..MaxMs
    /\ tpc = "raced"
    /\ pvalue \in 1..MaxPromiseValue
    /\ pstate \in {"pending", "fulfilled", "rejected"}
    /\ ptime = IF pstate = "pending" THEN -1 ELSE 0
    /\ tarmed = TRUE
    /\ tdue = Deadline(ms)
    /\ race = CASE pstate = "fulfilled" -> RaceSettle(Pending, Fulfilled(pvalue))
                [] pstate = "rejected" -> RaceSettle(Pending, Rejected(PromiseError))
                [] OTHER -> Pending
    /\ racetime = IF pstate = "pending" THEN -1 ELSE 0
    /\ tnow = 0

IdleTimeoutVars ==
    /\ ms = 0 /\ tpc = "off" /\ pstate = "pending" /\ pvalue = 0 /\ ptime = -1
    /\ tarmed = FALSE /\ tdue = 0 /\ race = Pending /\ racetime = -1 /\ tnow = 0

\* The promise argument fulfils.
PromiseFulfilCancels ==
    /\ tpc = "raced"
    /\ pstate = "pending"
    /\ pstate' = "fulfilled"
    /\ ptime' = tnow
    /\ race' = RaceSettle(race, Fulfilled(pvalue))
    /\ racetime' = IF race.state = "pending" THEN tnow ELSE racetime
    /\ tarmed' = FALSE
    /\ UNCHANGED <<ms, tpc, pvalue, tdue, tnow>>
    /\ UNCHANGED notTimeout
PromiseFulfil ==
    /\ tpc = "raced"
    /\ pstate = "pending"
    /\ pstate' = "fulfilled"
    /\ ptime' = tnow
    /\ race' = RaceSettle(race, Fulfilled(pvalue))
    /\ racetime' = IF race.state = "pending" THEN tnow ELSE racetime
    /\ UNCHANGED <<ms, tpc, pvalue, tarmed, tdue, tnow>>
    /\ UNCHANGED notTimeout

\* The promise argument rejects.
PromiseReject ==
    /\ tpc = "raced"
    /\ pstate = "pending"
    /\ pstate' = "rejected"
    /\ ptime' = tnow
    /\ race' = RaceSettle(race, Rejected(PromiseError))
    /\ racetime' = IF race.state = "pending" THEN tnow ELSE racetime
    /\ UNCHANGED <<ms, tpc, pvalue, tarmed, tdue, tnow>>
    /\ UNCHANGED notTimeout

\* The deadline timer fires: reject(new Error(...)).  Nothing disarms the
\* timer before, whatever the promise argument did.
DeadlineFire ==
    /\ tpc = "raced"
    /\ tarmed
    /\ tnow >= tdue
    /\ tarmed' = FALSE
    /\ race' = RaceSettle(race, Rejected(TimeoutError(ms)))
    /\ racetime' = IF race.state = "pending" THEN tnow ELSE racetime
    /\ UNCHANGED <<ms, tpc, pstate, pvalue, ptime, tdue, tnow>>
    /\ UNCHANGED notTimeout

\* Time passes, but not past a due timer.
TimeoutTick ==
    /\ tpc = "raced"
    /\ tnow < MaxTimeoutClock
    /\ ~(tarmed /\ tnow >= tdue)
    /\ tnow' = tnow + 1
    /\ UNCHANGED <<ms, tpc, pstate, pvalue, ptime, tarmed, tdue, race, racetime>>
    /\ UNCHANGED notTimeout

NextTimeout ==
    \/ PromiseFulfil
    \/ PromiseReject
    \/ DeadlineFire
    \/ TimeoutTick

\* ------------------------------------------------------------------------
\* Utils.debounce

MaxWait == 2           \* wait arguments are 1..MaxWait
MaxArg == 2            \* the wrapper is invoked with an argument in 1..MaxArg
MaxInvocations == 3    \* invocations of the wrapper per behaviour
MaxDebounceClock == 5  \* the clock of the debounce model stops here

\* clearTimeout(h): disarms the timer with that id, if it is still armed.
ClearTimeout(ts, h) == {t \in ts : t.id # h}

\* The body of the wrapper, invoked with argument a as invocation number n
\* at time now, on the closure state h (timeout) and the armed timers ts:
\*   if (timeout) clearTimeout(timeout); timeout = setTimeout(..., wait)
WrapperBody(h, ts, id, a, n, now) ==
    LET kept == IF h # 0 THEN ClearTimeout(ts, h) ELSE ts
    IN  [handle |-> id,
         timers |-> kept \cup {[id |-> id, due |-> now + wait, args |-> a, inv |-> n]}]

FCall(t) == [args |-> t.args, time |-> dnow, inv |-> t.inv, seen |-> Len(invs)]

InitDebounceVars ==
    /\ wait \in 1..MaxWait
    /\ dpc = "on"
    /\ handle = 0
    /\ timers = {}
    /\ nextId = 1
    /\ invs = <<>>
    /\ fcalls = <<>>
    /\ dnow = 0

IdleDebounceVars ==
    /\ wait = 0 /\ dpc = "off" /\ handle = 0 /\ timers = {} /\ nextId = 1
    /\ invs = <<>> /\ fcalls = <<>> /\ dnow = 0

\* The wrapper is invoked with argument a.
DebounceInvoke(a) ==
    /\ dpc = "on"
    /\ Len(invs) < MaxInvocations
    /\ LET r == WrapperBody(handle, timers, nextId, a, Len(invs) + 1, dnow)
       IN  /\ handle' = r.handle
           /\ timers' = r.timers
    /\ nextId' = nextId + 1
    /\ invs' = Append(invs, [args |-> a, time |-> dnow])
    /\ UNCHANGED <<wait, dpc, fcalls, dnow>>
    /\ UNCHANGED notDebounce

\* Timer t fires: func(...args) returns and then timeout = null.
DebounceFire(t) ==
    /\ dpc = "on"
    /\ t \in timers
    /\ dnow >= t.due
    /\ timers' = timers \ {t}
    /\ fcalls' = Append(fcalls, FCall(t))
    /\ handle' = 0
    /\ UNCHANGED <<wait, dpc, nextId, invs, dnow>>
    /\ UNCHANGED notDebounce

\* Timer t fires and func throws: timeout = null is not reached.
DebounceFireThrows(t) ==
    /\ dpc = "on"
    /\ t \in timers
    /\ dnow >= t.due
    /\ timers' = timers \ {t}
    /\ fcalls' = Append(fcalls, FCall(t))
    /\ UNCHANGED <<wait, dpc, handle, nextId, invs, dnow>>
    /\ UNCHANGED notDebounce

\* Timer t fires and func, while it runs, invokes the wrapper with argument
\* a; after func has returned, timeout = null.
DebounceFireReenters(t, a) ==
    /\ dpc = "on"
    /\ t \in timers
    /\ dnow >= t.due
    /\ Len(invs) < MaxInvocations
    /\ fcalls' = Append(fcalls, FCall(t))
    /\ LET r == WrapperBody(handle, timers \ {t}, nextId, a, Len(invs) + 1, dnow)
       IN  timers' = r.timers
    /\ nextId' = nextId + 1
    /\ invs' = Append(invs, [args |-> a, time |-> dnow])
    /\ handle' = 0
    /\ UNCHANGED <<wait, dpc, dnow>>
    /\ UNCHANGED notDebounce

\* Time passes, but not past a due timer.
DebounceTick ==
    /\ dpc = "on"
    /\ dnow < MaxDebounceClock
    /\ \A t \in timers : dnow < t.due
    /\ dnow' = dnow + 1
    /\ UNCHANGED <<wait, dpc, handle, timers, nextId, invs, fcalls>>
    /\ UNCHANGED notDebounce

NextDebounce ==
    \/ \E a \in 1..MaxArg : DebounceInvoke(a)
    \/ \E t \in timers : DebounceFire(t)
    \/ \E t \in timers : DebounceFireThrows(t)
    \/ \E t \in timers, a \in 1..MaxArg : DebounceFireReenters(t, a)
    \/ DebounceTick

\* ------------------------------------------------------------------------
\* Utils.throttle

MaxLimit == 2          \* limit arguments are 1..MaxLimit
MaxThrottleClock == 4  \* the clock of the throttle model stops here

\* setTimeout(() => inThrottle = false, limit)
UnlockTimer(id, now) == [id |-> id, due |-> now + limit]

HInv(a) == [args |-> a, time |-> hnow, locked |-> inThrottle]
\* A call of func for invocation n that returned, or that threw.
HCall(a, n) == [args |-> a, time |-> hnow, inv |-> n, threw |-> FALSE]
HThrow(a, n) == [args |-> a, time |-> hnow, inv |-> n, threw |-> TRUE]

InitThrottleVars ==
    /\ limit \in 1..MaxLimit
    /\ hpc = "on"
    /\ inThrottle = FALSE
    /\ htimers = {}
    /\ hnextId = 1
    /\ hinvs = <<>>
    /\ hcalls = <<>>
    /\ hnow = 0

IdleThrottleVars ==
    /\ limit = 0 /\ hpc = "off" /\ inThrottle = FALSE /\ htimers = {}
    /\ hnextId = 1 /\ hinvs = <<>> /\ hcalls = <<>> /\ hnow = 0

\* The wrapper is invoked with argument a while inThrottle is false:
\* func(...args) returns, inThrottle = true, and the unlock timer is armed.
ThrottleInvoke(a) ==
    /\ hpc = "on"
    /\ Len(hinvs) < MaxInvocations
    /\ ~inThrottle
    /\ hinvs' = Append(hinvs, HInv(a))
    /\ hcalls' = Append(hcalls, HCall(a, Len(hinvs) + 1))
    /\ inThrottle' = TRUE
    /\ htimers' = htimers \cup {UnlockTimer(hnextId, hnow)}
    /\ hnextId' = hnextId + 1
    /\ UNCHANGED <<limit, hpc, hnow>>
    /\ UNCHANGED notThrottle

\* The wrapper is invoked while inThrottle is true: the body is skipped.
ThrottleInvokeLocked(a) ==
    /\ hpc = "on"
    /\ Len(hinvs) < MaxInvocations
    /\ inThrottle
    /\ hinvs' = Append(hinvs, HInv(a))
    /\ UNCHANGED <<limit, hpc, inThrottle, htimers, hnextId, hcalls, hnow>>
    /\ UNCHANGED notThrottle

\* The wrapper is invoked while inThrottle is false and func throws: the
\* exception leaves the wrapper before inThrottle = true and setTimeout.
ThrottleInvokeThrowsLocked(a) ==
    /\ hpc = "on"
    /\ Len(hinvs) < MaxInvocations
    /\ ~inThrottle
    /\ hinvs' = Append(hinvs, HInv(a))
    /\ hcalls' = Append(hcalls, HThrow(a, Len(hinvs) + 1))
    /\ inThrottle' = TRUE
    /\ htimers' = htimers \cup {UnlockTimer(hnextId, hnow)}
    /\ hnextId' = hnextId + 1
    /\ UNCHANGED <<limit, hpc, hnow>>
    /\ UNCHANGED notThrottle
ThrottleInvokeThrows(a) ==
    /\ hpc = "on"
    /\ Len(hinvs) < MaxInvocations
    /\ ~inThrottle
    /\ hinvs' = Append(hinvs, HInv(a))
    /\ hcalls' = Append(hcalls, HThrow(a, Len(hinvs) + 1))
    /\ UNCHANGED <<limit, hpc, inThrottle, htimers, hnextId, hnow>>
    /\ UNCHANGED notThrottle

\* The wrapper is invoked with argument a while inThrottle is false and func,
\* while it runs, invokes the wrapper with argument b: inThrottle is still
\* false, so func runs for b as well; the inner and then the outer invocation
\* each set inThrottle = true and arm an unlock timer.
ThrottleInvokeReenters(a, b) ==
    /\ hpc = "on"
    /\ Len(hinvs) + 1 < MaxInvocations
    /\ ~inThrottle
    /\ hinvs' = hinvs \o <<HInv(a), HInv(b)>>
    /\ hcalls' = hcalls \o <<HCall(a, Len(hinvs) + 1), HCall(b, Len(hinvs) + 2)>>
    /\ inThrottle' = TRUE
    /\ htimers' = htimers \cup {UnlockTimer(hnextId, hnow), UnlockTimer(hnextId + 1, hnow)}
    /\ hnextId' = hnextId + 2
    /\ UNCHANGED <<limit, hpc, hnow>>
    /\ UNCHANGED notThrottle

\* Unlock timer t fires: inThrottle = false.
ThrottleUnlock(t) ==
    /\ hpc = "on"
    /\ t \in htimers
    /\ hnow >= t.due
    /\ htimers' = htimers \ {t}
    /\ inThrottle' = FALSE
    /\ UNCHANGED <<limit, hpc, hnextId, hinvs, hcalls, hnow>>
    /\ UNCHANGED notThrottle

\* Time passes, but not past a due timer.
ThrottleTick ==
    /\ hpc = "on"
    /\ hnow < MaxThrottleClock
    /\ \A t \in htimers : hnow < t.due
    /\ hnow' = hnow + 1
    /\ UNCHANGED <<limit, hpc, inThrottle, htimers, hnextId, hinvs, hcalls>>
    /\ UNCHANGED notThrottle

NextThrottle ==
    \/ \E a \in 1..MaxArg : ThrottleInvoke(a)
    \/ \E a \in 1..MaxArg : ThrottleInvokeLocked(a)
    \/ \E a \in 1..MaxArg : ThrottleInvokeThrows(a)
    \/ \E a, b \in 1..MaxArg : ThrottleInvokeReenters(a, b)
    \/ \E t \in htimers : ThrottleUnlock(t)
    \/ ThrottleTick

\* ------------------------------------------------------------------------
\* SteerVaultManager.getVaults

MaxEdges == 3          \* most edges in one page, and largest limit argument

NoResult == [success |-> FALSE, source |-> "none", edges |-> -1, error |-> "none"]
\* return { success: true, data: result.data, source: 'api', chainId }
ApiResult(n) == [success |-> TRUE, source |-> "api", edges |-> n, error |-> "none"]
\* return { success: false, error: error, chainId }
FailedResult(e) == [success |-> FALSE, source |-> "none", edges |-> -1, error |-> e]

\* The ways vaultClient.getVaults fails to deliver: it throws, it returns
\* success = false, or it returns no data.
ApiFailures == {"throws", "unsuccessful", "nodata"}

InitVaultsVars ==
    /\ gchain \in BOOLEAN
    /\ glimit \in 1..MaxEdges
    /\ gpc = "call"
    /\ gapi = "pending"
    /\ gedges = 0
    /\ gapr = 0
    /\ gaprlog = <<>>
    /\ gresult = NoResult

IdleVaultsVars ==
    /\ gchain = FALSE /\ glimit = 0 /\ gpc = "off" /\ gapi = "pending"
    /\ gedges = 0 /\ gapr = 0 /\ gaprlog = <<>> /\ gresult = NoResult

\* The client lookup: an unknown chainId throws outside the try block, so
\* the call rejects; otherwise vaultClient.getVaults is called and awaited.
VaultsCall ==
    /\ gpc = "call"
    /\ gpc' = IF gchain THEN "await" ELSE "rejected"
    /\ UNCHANGED <<gchain, glimit, gapi, gedges, gapr, gaprlog, gresult>>
    /\ UNCHANGED notVaults

\* The API returns success with a page of n edges.
VaultsApiOk(n) ==
    /\ gpc = "await"
    /\ n <= glimit
    /\ gapi' = "ok"
    /\ gedges' = n
    /\ gpc' = "apr"
    /\ UNCHANGED <<gchain, glimit, gapr, gaprlog, gresult>>
    /\ UNCHANGED notVaults

\* The API call throws or returns an unsuccessful response: the catch block
\* logs a warning and returns the failure.
VaultsApiFails(o) ==
    /\ gpc = "await"
    /\ gapi' = o
    /\ gresult' = FailedResult(o)
    /\ gpc' = "returned"
    /\ UNCHANGED <<gchain, glimit, gedges, gapr, gaprlog>>
    /\ UNCHANGED notVaults

\* One iteration of the APR loop: whatever getBlackholeVaultApr does (o) is
\* only logged.
VaultsApr(o) ==
    /\ gpc = "apr"
    /\ gapr < gedges
    /\ gapr' = gapr + 1
    /\ gaprlog' = Append(gaprlog, o)
    /\ UNCHANGED <<gchain, glimit, gpc, gapi, gedges, gresult>>
    /\ UNCHANGED notVaults

\* The APR loop is over: return the API's data.
VaultsReturn ==
    /\ gpc = "apr"
    /\ gapr = gedges
    /\ gresult' = ApiResult(gedges)
    /\ gpc' = "returned"
    /\ UNCHANGED <<gchain, glimit, gapi, gedges, gapr, gaprlog>>
    /\ UNCHANGED notVaults

NextVaults ==
    \/ VaultsCall
    \/ \E n \in 0..MaxEdges : VaultsApiOk(n)
    \/ \E o \in ApiFailures : VaultsApiFails(o)
    \/ \E o \in {"ok", "failed", "throws"} : VaultsApr(o)
    \/ VaultsReturn

\* ------------------------------------------------------------------------
\* SmartPoolWithdrawalManager.withdraw

MaxAmount == 2         \* token and share amounts are 0..MaxAmount

Success == [success |-> TRUE, hash |-> TRUE, error |-> "none"]
Failure(e) == [success |-> FALSE, hash |-> FALSE, error |-> e]
NotReturned == [success |-> FALSE, hash |-> FALSE, error |-> "pending"]

\* if (lpBalance < params.shares)
InsufficientReversed(balance, shares) == shares < balance
Insufficient(balance, shares) == balance < shares

InitWithdrawVars ==
    /\ wshares \in 0..MaxAmount
    /\ wpc = "addresses"
    /\ wbalance = -1
    /\ wamounts = FALSE
    /\ wprepared = 0
    /\ wsent = 0
    /\ wresult = NotReturned

IdleWithdrawVars ==
    /\ wshares = 0 /\ wpc = "off" /\ wbalance = -1 /\ wamounts = FALSE
    /\ wprepared = 0 /\ wsent = 0 /\ wresult = NotReturned

\* A step of withdraw throws error e: the catch block returns the failure.
WithdrawFail(e) ==
    /\ wpc' = "returned"
    /\ wresult' = Failure(e)

\* walletClient.getAddresses() returns.
WithdrawAddresses ==
    /\ wpc = "addresses"
    /\ wpc' = "balance"
    /\ UNCHANGED <<wshares, wbalance, wamounts, wprepared, wsent, wresult>>
    /\ UNCHANGED notWithdraw

\* walletClient.getAddresses() throws.
WithdrawAddressesFails ==
    /\ wpc = "addresses"
    /\ WithdrawFail("getAddresses")
    /\ UNCHANGED <<wshares, wbalance, wamounts, wprepared, wsent>>
    /\ UNCHANGED notWithdraw

\* getLpTokenBalance returns b, followed by the two balance checks.
WithdrawBalance(b) ==
    /\ wpc = "balance"
    /\ wbalance' = b
    /\ IF Insufficient(b, wshares)
       THEN WithdrawFail("Insufficient LP token balance")
       ELSE IF Insufficient(b, wshares)
       THEN WithdrawFail("Insufficient available shares")
       ELSE wpc' = "amounts" /\ UNCHANGED wresult
    /\ UNCHANGED <<wshares, wamounts, wprepared, wsent>>
    /\ UNCHANGED notWithdraw

\* getLpTokenBalance throws.
WithdrawBalanceFails ==
    /\ wpc = "balance"
    /\ WithdrawFail("readContract")
    /\ UNCHANGED <<wshares, wbalance, wamounts, wprepared, wsent>>
    /\ UNCHANGED notWithdraw

\* calculateOptimalWithdrawAmounts returns amounts (a) or, having caught an
\* error of the SDK, null.
WithdrawAmounts(a) ==
    /\ wpc = "amounts"
    /\ wamounts' = a
    /\ wpc' = "prepare"
    /\ UNCHANGED <<wshares, wbalance, wprepared, wsent, wresult>>
    /\ UNCHANGED notWithdraw

\* prepareWithdrawTx returns the prepared transaction.
WithdrawPrepare ==
    /\ wpc = "prepare"
    /\ wprepared' = wprepared + 1
    /\ wpc' = "execute"
    /\ UNCHANGED <<wshares, wbalance, wamounts, wsent, wresult>>
    /\ UNCHANGED notWithdraw

\* prepareWithdrawTx rethrows an error of the SDK.
WithdrawPrepareFails ==
    /\ wpc = "prepare"
    /\ wprepared' = wprepared + 1
    /\ WithdrawFail("prepareWithdrawTx")
    /\ UNCHANGED <<wshares, wbalance, wamounts, wsent>>
    /\ UNCHANGED notWithdraw

\* executeWithdrawal: writeContract returns the transaction hash.
WithdrawExecute ==
    /\ wpc = "execute"
    /\ wsent' = wsent + 1
    /\ wpc' = "receipt"
    /\ UNCHANGED <<wshares, wbalance, wamounts, wprepared, wresult>>
    /\ UNCHANGED notWithdraw

\* executeWithdrawal: writeContract throws, null is returned.
WithdrawExecuteFails ==
    /\ wpc = "execute"
    /\ wsent' = wsent + 1
    /\ WithdrawFail("Failed to execute withdrawal transaction")
    /\ UNCHANGED <<wshares, wbalance, wamounts, wprepared>>
    /\ UNCHANGED notWithdraw

\* waitForTransactionReceipt returns: success.
WithdrawReceipt ==
    /\ wpc = "receipt"
    /\ wpc' = "returned"
    /\ wresult' = Success
    /\ UNCHANGED <<wshares, wbalance, wamounts, wprepared, wsent>>
    /\ UNCHANGED notWithdraw

\* waitForTransactionReceipt throws.
WithdrawReceiptFails ==
    /\ wpc = "receipt"
    /\ WithdrawFail("waitForTransactionReceipt")
    /\ UNCHANGED <<wshares, wbalance, wamounts, wprepared, wsent>>
    /\ UNCHANGED notWithdraw

NextWithdraw ==
    \/ WithdrawAddresses
    \/ WithdrawAddressesFails
    \/ \E b \in 0..MaxAmount : WithdrawBalance(b)
    \/ WithdrawBalanceFails
    \/ \E a \in BOOLEAN : WithdrawAmounts(a)
    \/ WithdrawPrepare
    \/ WithdrawPrepareFails
    \/ WithdrawExecute
    \/ WithdrawExecuteFails
    \/ WithdrawReceipt
    \/ WithdrawReceiptFails

\* ------------------------------------------------------------------------
\* SmartPoolDepositManager.deposit

Tokens == {0, 1}       \* token0 and token1 of the vault

\* if (allowance0 < params.amount0Desired)
NeedsApprovalOnlyIfZero(allowance, amount) == allowance = 0
NeedsApproval(allowance, amount) == allowance < amount

InitDepositVars ==
    /\ pamount \in [Tokens -> 0..MaxAmount]
    /\ ppc = "vault"
    /\ pbalance = [t \in Tokens |-> -1]
    /\ pallowance = [t \in Tokens |-> -1]
    /\ papproval = [t \in Tokens |-> "none"]
    /\ pprepared = 0
    /\ psent = 0
    /\ presult = NotReturned

IdleDepositVars ==
    /\ pamount = [t \in Tokens |-> 0] /\ ppc = "off"
    /\ pbalance = [t \in Tokens |-> -1] /\ pallowance = [t \in Tokens |-> -1]
    /\ papproval = [t \in Tokens |-> "none"]
    /\ pprepared = 0 /\ psent = 0 /\ presult = NotReturned

\* A step of deposit throws error e: the catch block returns the failure.
DepositFailRejects(e) ==
    /\ ppc' = "rejected"
    /\ presult' = NotReturned
DepositFail(e) ==
    /\ ppc' = "returned"
    /\ presult' = Failure(e)

\* getVaultInfo finds the vault.
DepositVaultInfo ==
    /\ ppc = "vault"
    /\ ppc' = "addresses"
    /\ UNCHANGED <<pamount, pbalance, pallowance, papproval, pprepared, psent, presult>>
    /\ UNCHANGED notDeposit

\* getVaultInfo returns null.
DepositVaultInfoFails ==
    /\ ppc = "vault"
    /\ DepositFail("Vault not found or invalid")
    /\ UNCHANGED <<pamount, pbalance, pallowance, papproval, pprepared, psent>>
    /\ UNCHANGED notDeposit

\* walletClient.getAddresses() returns.
DepositAddresses ==
    /\ ppc = "addresses"
    /\ ppc' = "balances"
    /\ UNCHANGED <<pamount, pbalance, pallowance, papproval, pprepared, psent, presult>>
    /\ UNCHANGED notDeposit

\* walletClient.getAddresses() throws.
DepositAddressesFails ==
    /\ ppc = "addresses"
    /\ DepositFail("getAddresses")
    /\ UNCHANGED <<pamount, pbalance, pallowance, papproval, pprepared, psent>>
    /\ UNCHANGED notDeposit

\* The token whose read comes next: token1 follows token0.
NextRead(read) == IF read[0] = -1 THEN 0 ELSE 1

\* getTokenBalance for token t returns b (0 when the read fails).  The two
\* balance checks follow the read of token1.
DepositBalance(t, b) ==
    /\ ppc = "balances"
    /\ t = NextRead(pbalance)
    /\ pbalance' = [pbalance EXCEPT ![t] = b]
    /\ IF t = 0
       THEN UNCHANGED <<ppc, presult>>
       ELSE IF pbalance'[0] < pamount[0]
       THEN DepositFail("Insufficient token0 balance")
       ELSE IF pbalance'[1] < pamount[1]
       THEN DepositFail("Insufficient token1 balance")
       ELSE ppc' = "allowances" /\ UNCHANGED presult
    /\ UNCHANGED <<pamount, pallowance, papproval, pprepared, psent>>
    /\ UNCHANGED notDeposit

\* getTokenAllowance for token t returns l (0 when the read fails).
DepositAllowance(t, l) ==
    /\ ppc = "allowances"
    /\ t = NextRead(pallowance)
    /\ pallowance' = [pallowance EXCEPT ![t] = l]
    /\ ppc' = IF t = 0 THEN "allowances" ELSE "approve0"
    /\ UNCHANGED <<pamount, pbalance, papproval, pprepared, psent, presult>>
    /\ UNCHANGED notDeposit

\* The position of the approval step of token t, and the step after it.
ApprovePc(t) == IF t = 0 THEN "approve0" ELSE "approve1"
AfterApprovePc(t) == IF t = 0 THEN "approve1" ELSE "prepare"

\* The allowance of token t covers the amount: no approval is sent.
DepositApproveSkip(t) ==
    /\ ppc = ApprovePc(t)
    /\ ~NeedsApproval(pallowance[t], pamount[t])
    /\ ppc' = AfterApprovePc(t)
    /\ UNCHANGED <<pamount, pbalance, pallowance, papproval, pprepared, psent, presult>>
    /\ UNCHANGED notDeposit

\* approveToken for token t: writeContract returns the hash of the approve
\* transaction; the wait for its receipt is pending.
DepositApproveSend(t) ==
    /\ ppc = ApprovePc(t)
    /\ NeedsApproval(pallowance[t], pamount[t])
    /\ papproval[t] = "none"
    /\ papproval' = [papproval EXCEPT ![t] = "sent"]
    /\ UNCHANGED <<pamount, ppc, pbalance, pallowance, pprepared, psent, presult>>
    /\ UNCHANGED notDeposit

\* approveToken for token t: writeContract throws, null is returned.
DepositApproveSendFails(t) ==
    /\ ppc = ApprovePc(t)
    /\ NeedsApproval(pallowance[t], pamount[t])
    /\ papproval[t] = "none"
    /\ papproval' = [papproval EXCEPT ![t] = "failed"]
    /\ DepositFail(IF t = 0 THEN "Failed to approve token0"
                            ELSE "Failed to approve token1")
    /\ UNCHANGED <<pamount, pbalance, pallowance, pprepared, psent>>
    /\ UNCHANGED notDeposit

\* approveToken for token t: waitForTransactionReceipt returns, so the hash
\* is returned.  The receipt itself is not read by the code.
DepositApproveConfirm(t) ==
    /\ ppc = ApprovePc(t)
    /\ papproval[t] = "sent"
    /\ papproval' = [papproval EXCEPT ![t] = "confirmed"]
    /\ ppc' = AfterApprovePc(t)
    /\ UNCHANGED <<pamount, pbalance, pallowance, pprepared, psent, presult>>
    /\ UNCHANGED notDeposit

\* approveToken for token t: waitForTransactionReceipt throws, null is
\* returned.
DepositApproveWaitFails(t) ==
    /\ ppc = ApprovePc(t)
    /\ papproval[t] = "sent"
    /\ papproval' = [papproval EXCEPT ![t] = "failed"]
    /\ DepositFail(IF t = 0 THEN "Failed to approve token0"
                            ELSE "Failed to approve token1")
    /\ UNCHANGED <<pamount, pbalance, pallowance, pprepared, psent>>
    /\ UNCHANGED notDeposit

\* prepareDeposit returns the prepared transaction.
DepositPrepare ==
    /\ ppc = "prepare"
    /\ pprepared' = pprepared + 1
    /\ ppc' = "execute"
    /\ UNCHANGED <<pamount, pbalance, pallowance, papproval, psent, presult>>
    /\ UNCHANGED notDeposit

\* prepareDeposit rethrows an error of the SDK.
DepositPrepareFails ==
    /\ ppc = "prepare"
    /\ pprepared' = pprepared + 1
    /\ DepositFail("prepareDepositTx")
    /\ UNCHANGED <<pamount, pbalance, pallowance, papproval, psent>>
    /\ UNCHANGED notDeposit

\* executeDeposit: writeContract returns the transaction hash.
DepositExecute ==
    /\ ppc = "execute"
    /\ psent' = psent + 1
    /\ ppc' = "receipt"
    /\ UNCHANGED <<pamount, pbalance, pallowance, papproval, pprepared, presult>>
    /\ UNCHANGED notDeposit

\* executeDeposit: writeContract throws, null is returned.
DepositExecuteFails ==
    /\ ppc = "execute"
    /\ psent' = psent + 1
    /\ DepositFail("Failed to execute deposit transaction")
    /\ UNCHANGED <<pamount, pbalance, pallowance, papproval, pprepared>>
    /\ UNCHANGED notDeposit

\* waitForTransactionReceipt returns: success.
DepositReceipt ==
    /\ ppc = "receipt"
    /\ ppc' = "returned"
    /\ presult' = Success
    /\ UNCHANGED <<pamount, pbalance, pallowance, papproval, pprepared, psent>>
    /\ UNCHANGED notDeposit

\* waitForTransactionReceipt throws.
DepositReceiptFails ==
    /\ ppc = "receipt"
    /\ DepositFail("waitForTransactionReceipt")
    /\ UNCHANGED <<pamount, pbalance, pallowance, papproval, pprepared, psent>>
    /\ UNCHANGED notDeposit

NextDeposit ==
    \/ DepositVaultInfo
    \/ DepositVaultInfoFails
    \/ DepositAddresses
    \/ DepositAddressesFails
    \/ \E t \in Tokens, b \in 0..MaxAmount : DepositBalance(t, b)
    \/ \E t \in Tokens, l \in 0..MaxAmount : DepositAllowance(t, l)
    \/ \E t \in Tokens : DepositApproveSkip(t)
    \/ \E t \in Tokens : DepositApproveSend(t)
    \/ \E t \in Tokens : DepositApproveSendFails(t)
    \/ \E t \in Tokens : DepositApproveConfirm(t)
    \/ \E t \in Tokens : DepositApproveWaitFails(t)
    \/ DepositPrepare
    \/ DepositPrepareFails
    \/ DepositExecute
    \/ DepositExecuteFails
    \/ DepositReceipt
    \/ DepositReceiptFails

\* ------------------------------------------------------------------------
\* SteerVaultManager.getAllVaults

MaxPages == 3          \* the API has at most this many pages

\* The edges of a page of n edges requested with cursor c: the vaults at
\* positions c + 1 .. c + n of the API's list.
Edges(c, n) == [j \in 1..n |-> c + j]

\* result.data.pageInfo of that page
PageInfo(c, n, more) == [hasNextPage |-> more, endCursor |-> c + n]

\* cursor = result.data.pageInfo.endCursor
NextCursorKeep(cur, info) == cur
NextCursor(cur, info) == info.endCursor

NoAllResult == [success |-> FALSE, data |-> <<>>, totalCount |-> -1]
\* return { success: true, data: allVaults, totalCount: totalFetched, chainId }
AllResult(all, total) == [success |-> TRUE, data |-> all, totalCount |-> total]

InitAllVaultsVars ==
    /\ achain \in BOOLEAN
    /\ abatch \in 1..MaxEdges
    /\ apc = "loop"
    /\ acursor = 0
    /\ ahasMore = TRUE
    /\ aall = <<>>
    /\ atotal = 0
    /\ arequests = <<>>
    /\ apages = <<>>
    /\ aresult = NoAllResult

IdleAllVaultsVars ==
    /\ achain = FALSE /\ abatch = 0 /\ apc = "off" /\ acursor = 0
    /\ ahasMore = TRUE /\ aall = <<>> /\ atotal = 0 /\ arequests = <<>>
    /\ apages = <<>> /\ aresult = NoAllResult

\* Loop test true: this.getVaults(chainId, batchSize, cursor, ...) is called
\* and awaited.
AllVaultsRequest ==
    /\ apc = "loop"
    /\ ahasMore
    /\ arequests' = Append(arequests, acursor)
    /\ gchain' = achain
    /\ glimit' = abatch
    /\ gpc' = "call"
    /\ gapi' = "pending"
    /\ gedges' = 0
    /\ gapr' = 0
    /\ gaprlog' = <<>>
    /\ gresult' = NoResult
    /\ apc' = "await"
    /\ UNCHANGED <<achain, abatch, acursor, ahasMore, aall, atotal, apages, aresult>>
    /\ UNCHANGED notAllVaults

\* getVaults returned a page, whose pageInfo says whether more pages follow:
\* the edges are appended and hasMore and cursor are updated.
AllVaultsPage(more) ==
    /\ apc = "await"
    /\ gpc = "returned"
    /\ gresult.success /\ gresult.edges >= 0
    /\ more => Len(apages) + 1 < MaxPages
    /\ LET info == PageInfo(acursor, gresult.edges, more)
       IN  /\ aall' = aall \o Edges(acursor, gresult.edges)
           /\ atotal' = atotal + gresult.edges
           /\ ahasMore' = info.hasNextPage
           /\ acursor' = NextCursor(acursor, info)
           /\ apages' = Append(apages, [ok |-> TRUE, edges |-> gresult.edges,
                                        info |-> info])
    /\ apc' = "loop"
    /\ UNCHANGED <<achain, abatch, arequests, aresult>>
    /\ UNCHANGED gvars
    /\ UNCHANGED notAllVaults

\* getVaults returned a failure: break, then the return statement.
AllVaultsPageFails ==
    /\ apc = "await"
    /\ gpc = "returned"
    /\ ~gresult.success
    /\ apages' = Append(apages, [ok |-> FALSE, edges |-> 0,
                                 info |-> PageInfo(acursor, 0, FALSE)])
    /\ aresult' = AllResult(aall, atotal)
    /\ apc' = "returned"
    /\ UNCHANGED <<achain, abatch, acursor, ahasMore, aall, atotal, arequests>>
    /\ UNCHANGED gvars
    /\ UNCHANGED notAllVaults

\* getVaults rejected (no client for the chainId): the await throws and
\* nothing catches it.
AllVaultsRejects ==
    /\ apc = "await"
    /\ gpc = "rejected"
    /\ apc' = "rejected"
    /\ UNCHANGED <<achain, abatch, acursor, ahasMore, aall, atotal, arequests,
                   apages, aresult>>
    /\ UNCHANGED gvars
    /\ UNCHANGED notAllVaults

\* Loop test false: the return statement.
AllVaultsReturn ==
    /\ apc = "loop"
    /\ ~ahasMore
    /\ aresult' = AllResult(aall, atotal)
    /\ apc' = "returned"
    /\ UNCHANGED <<achain, abatch, acursor, ahasMore, aall, atotal, arequests, apages>>
    /\ UNCHANGED gvars
    /\ UNCHANGED notAllVaults

\* getAllVaults and the getVaults calls it awaits
NextAllVaults ==
    \/ AllVaultsRequest
    \/ \E more \in BOOLEAN : AllVaultsPage(more)
    \/ AllVaultsPageFails
    \/ AllVaultsRejects
    \/ AllVaultsReturn
    \/ apc = "await" /\ NextVaults

\* ------------------------------------------------------------------------
\* PerformanceUtils.measureAsync

MaxNames == 2          \* timer names are 1..MaxNames
MaxMeasureCalls == 3   \* measureAsync calls per behaviour
MaxMeasureClock == 3   \* Date.now() runs from 1 to here

Names == 1..MaxNames
MeasureCalls == 1..MaxMeasureCalls

NotCalled == [name |-> 0, state |-> "idle", fn |-> "none", out |-> "none"]

\* startTimer(name): this.timers.set(name, Date.now())
StartTimer(ts, n, now) == [ts EXCEPT ![n] = now]

\* endTimer(name): throws when get(name) is undefined (or 0), otherwise
\* deletes the entry and returns the duration.
EndTimer(ts, n, now) ==
    IF ts[n] = -1 \/ ts[n] = 0
    THEN [ok |-> FALSE, timers |-> ts, duration |-> 0]
    ELSE [ok |-> TRUE, timers |-> [ts EXCEPT ![n] = -1], duration |-> now - ts[n]]

InitMeasureVars ==
    /\ mtimers = [n \in Names |-> -1]
    /\ mcalls = [c \in MeasureCalls |-> NotCalled]
    /\ mnow = 1

IdleMeasureVars ==
    /\ mtimers = <<>> /\ mcalls = <<>> /\ mnow = 0

\* measureAsync(n, fn) is called: startTimer(n), then fn() is called and
\* awaited.
MeasureStart(c, n) ==
    /\ c \in DOMAIN mcalls
    /\ mcalls[c].state = "idle"
    /\ \A b \in 1..(c - 1) : mcalls[b].state # "idle"
    /\ mtimers' = StartTimer(mtimers, n, mnow)
    /\ mcalls' = [mcalls EXCEPT ![c] = [name |-> n, state |-> "running",
                                        fn |-> "pending", out |-> "none"]]
    /\ UNCHANGED mnow
    /\ UNCHANGED notMeasure

\* fn's promise fulfils: endTimer(name), then return result.  When endTimer
\* throws, the catch block calls endTimer again, which throws again.
MeasureFnResolve(c) ==
    /\ c \in DOMAIN mcalls
    /\ mcalls[c].state = "running"
    /\ LET r == EndTimer(mtimers, mcalls[c].name, mnow)
       IN  /\ mtimers' = r.timers
           /\ mcalls' = [mcalls EXCEPT ![c].fn = "fulfilled",
                                       ![c].state = IF r.ok THEN "returned" ELSE "rejected",
                                       ![c].out = IF r.ok THEN "result" ELSE "TimerNotStarted"]
    /\ UNCHANGED mnow
    /\ UNCHANGED notMeasure

\* fn's promise rejects: the catch block calls endTimer(name) and rethrows
\* the error, unless endTimer throws.
MeasureFnReject(c) ==
    /\ c \in DOMAIN mcalls
    /\ mcalls[c].state = "running"
    /\ LET r == EndTimer(mtimers, mcalls[c].name, mnow)
       IN  /\ mtimers' = r.timers
           /\ mcalls' = [mcalls EXCEPT ![c].fn = "rejected",
                                       ![c].state = "rejected",
                                       ![c].out = IF r.ok THEN "FnError" ELSE "TimerNotStarted"]
    /\ UNCHANGED mnow
    /\ UNCHANGED notMeasure

\* Other code calls the public startTimer(n) itself.
CallStartTimer(n) ==
    /\ n \in DOMAIN mtimers
    /\ mtimers' = StartTimer(mtimers, n, mnow)
    /\ UNCHANGED <<mcalls, mnow>>
    /\ UNCHANGED notMeasure

\* Other code calls the public endTimer(n) itself: the entry is deleted, or
\* the call throws and the map stays as it is.
CallEndTimer(n) ==
    /\ n \in DOMAIN mtimers
    /\ mtimers' = EndTimer(mtimers, n, mnow).timers
    /\ UNCHANGED <<mcalls, mnow>>
    /\ UNCHANGED notMeasure

\* Other code calls the synchronous measure(n, fn): startTimer(n), fn(),
\* endTimer(n) run without a break, whether fn returns or throws, so the
\* entry written for n is deleted again.
CallMeasure(n) ==
    /\ n \in DOMAIN mtimers
    /\ mtimers' = EndTimer(StartTimer(mtimers, n, mnow), n, mnow).timers
    /\ UNCHANGED <<mcalls, mnow>>
    /\ UNCHANGED notMeasure

\* Time passes.
MeasureTick ==
    /\ mcalls # <<>>
    /\ mnow < MaxMeasureClock
    /\ mnow' = mnow + 1
    /\ UNCHANGED <<mtimers, mcalls>>
    /\ UNCHANGED notMeasure

NextMeasure ==
    \/ \E c \in MeasureCalls, n \in Names : MeasureStart(c, n)
    \/ \E c \in MeasureCalls : MeasureFnResolve(c)
    \/ \E c \in MeasureCalls : MeasureFnReject(c)
    \/ \E n \in Names : CallStartTimer(n)
    \/ \E n \in Names : CallEndTimer(n)
    \/ \E n \in Names : CallMeasure(n)
    \/ MeasureTick

\* ------------------------------------------------------------------------
\* Several wrappers made by Utils.debounce and Utils.throttle around the same
\* func, which returns or throws and does not invoke a wrapper itself

MaxWrapperInvocations == 2   \* invocations of wrappers per behaviour
MaxWrapperClock == 3         \* the clock of this model stops here

Debounced == {1, 2}    \* the wrappers Utils.debounce(func, xwait[w]) returned
Throttled == {3, 4}    \* the wrappers Utils.throttle(func, xwait[w]) returned
Wrappers == Debounced \cup Throttled

\* timeout = ... inside the closure of wrapper w: `let timeout` is a local
\* of the debounce call that made w.
StoreHandleShared(hs, w, id) == [v \in DOMAIN hs |-> IF v \in Debounced THEN id ELSE hs[v]]
StoreHandle(hs, w, id) == [hs EXCEPT ![w] = id]

XInv(w) == [of |-> w, time |-> xnow]
XCall(w, n, threw) == [of |-> w, inv |-> n, time |-> xnow, threw |-> threw]

InitWrappersVars ==
    /\ xwait \in [Wrappers -> 1..MaxWait]
    /\ xhandle = [w \in Wrappers |-> 0]
    /\ xlock = [w \in Wrappers |-> FALSE]
    /\ xtimers = {}
    /\ xnextId = 1
    /\ xinvs = <<>>
    /\ xcalls = <<>>
    /\ xactor = 0
    /\ xnow = 0

IdleWrappersVars ==
    /\ xwait = <<>> /\ xhandle = <<>> /\ xlock = <<>> /\ xtimers = {}
    /\ xnextId = 1 /\ xinvs = <<>> /\ xcalls = <<>> /\ xactor = 0 /\ xnow = 0

\* Debounced wrapper w is invoked:
\*   if (timeout) clearTimeout(timeout); timeout = setTimeout(..., wait)
WrapperDebounceInvoke(w) ==
    /\ w \in Debounced /\ w \in DOMAIN xhandle
    /\ Len(xinvs) < MaxWrapperInvocations
    /\ xtimers' = (IF xhandle[w] # 0 THEN ClearTimeout(xtimers, xhandle[w]) ELSE xtimers)
                  \cup {[id |-> xnextId, due |-> xnow + xwait[w], of |-> w,
                         inv |-> Len(xinvs) + 1]}
    /\ xhandle' = StoreHandle(xhandle, w, xnextId)
    /\ xnextId' = xnextId + 1
    /\ xinvs' = Append(xinvs, XInv(w))
    /\ xactor' = w
    /\ UNCHANGED <<xwait, xlock, xcalls, xnow>>
    /\ UNCHANGED notWrappers

\* Timer t of a debounced wrapper fires: func(...args), and if it returned,
\* timeout = null.
WrapperDebounceFire(t, threw) ==
    /\ t \in xtimers
    /\ t.of \in Debounced
    /\ xnow >= t.due
    /\ xtimers' = xtimers \ {t}
    /\ xcalls' = Append(xcalls, XCall(t.of, t.inv, threw))
    /\ xhandle' = IF threw THEN xhandle ELSE StoreHandle(xhandle, t.of, 0)
    /\ xactor' = t.of
    /\ UNCHANGED <<xwait, xlock, xnextId, xinvs, xnow>>
    /\ UNCHANGED notWrappers

\* Throttled wrapper w is invoked: if (!inThrottle) { func(...args);
\* inThrottle = true; setTimeout(() => inThrottle = false, limit) }
WrapperThrottleInvoke(w, threw) ==
    /\ w \in Throttled /\ w \in DOMAIN xlock
    /\ Len(xinvs) < MaxWrapperInvocations
    /\ xinvs' = Append(xinvs, XInv(w))
    /\ xactor' = w
    /\ IF xlock[w]
       THEN /\ ~threw
            /\ UNCHANGED <<xcalls, xlock, xtimers, xnextId>>
       ELSE /\ xcalls' = Append(xcalls, XCall(w, Len(xinvs) + 1, threw))
            /\ IF threw
               THEN UNCHANGED <<xlock, xtimers, xnextId>>
               ELSE /\ xlock' = [xlock EXCEPT ![w] = TRUE]
                    /\ xtimers' = xtimers \cup {[id |-> xnextId, due |-> xnow + xwait[w],
                                                 of |-> w, inv |-> Len(xinvs) + 1]}
                    /\ xnextId' = xnextId + 1
    /\ UNCHANGED <<xwait, xhandle, xnow>>
    /\ UNCHANGED notWrappers

\* The unlock timer t of a throttled wrapper fires: inThrottle = false.
WrapperThrottleUnlock(t) ==
    /\ t \in xtimers
    /\ t.of \in Throttled
    /\ xnow >= t.due
    /\ xtimers' = xtimers \ {t}
    /\ xlock' = [xlock EXCEPT ![t.of] = FALSE]
    /\ xactor' = t.of
    /\ UNCHANGED <<xwait, xhandle, xnextId, xinvs, xcalls, xnow>>
    /\ UNCHANGED notWrappers

\* Time passes, but not past a due timer.
WrappersTick ==
    /\ xwait # <<>>
    /\ xnow < MaxWrapperClock
    /\ \A t \in xtimers : xnow < t.due
    /\ xnow' = xnow + 1
    /\ xactor' = 0
    /\ UNCHANGED <<xwait, xhandle, xlock, xtimers, xnextId, xinvs, xcalls>>
    /\ UNCHANGED notWrappers

NextWrappers ==
    \/ \E w \in Debounced : WrapperDebounceInvoke(w)
    \/ \E t \in xtimers, threw \in BOOLEAN : WrapperDebounceFire(t, threw)
    \/ \E w \in Throttled, threw \in BOOLEAN : WrapperThrottleInvoke(w, threw)
    \/ \E t \in xtimers : WrapperThrottleUnlock(t)
    \/ WrappersTick

\* ------------------------------------------------------------------------
\* Specifications

IdleExcept(x) ==
    /\ x = "batch" \/ IdleBatchVars
    /\ x = "retry" \/ IdleRetryVars
    /\ x = "timeout" \/ IdleTimeoutVars
    /\ x = "debounce" \/ IdleDebounceVars
    /\ x = "throttle" \/ IdleThrottleVars
    /\ x = "vaults" \/ IdleVaultsVars
    /\ x = "withdraw" \/ IdleWithdrawVars
    /\ x = "deposit" \/ IdleDepositVars
    /\ x = "allvaults" \/ IdleAllVaultsVars
    /\ x = "measure" \/ IdleMeasureVars
    /\ x = "wrappers" \/ IdleWrappersVars

InitBatch == InitBatchVars /\ IdleExcept("batch")
SpecBatch == InitBatch /\ [][NextBatch]_vars

\* The steps of batchProcess's own body are run by the event loop as soon as
\* they are enabled; whether a processor's promise ever settles is up to the
\* caller.
SpecBatchFair ==
    /\ SpecBatch
    /\ WF_vars(BatchIterate) /\ WF_vars(BatchReturn)
    /\ WF_vars(BatchResume) /\ WF_vars(BatchThrow)

InitRetry == InitRetryVars /\ IdleExcept("retry")
SpecRetry == InitRetry /\ [][NextRetry]_vars

InitTimeout == InitTimeoutVars /\ IdleExcept("timeout")
SpecTimeout == InitTimeout /\ [][NextTimeout]_vars

InitDebounce == InitDebounceVars /\ IdleExcept("debounce")
SpecDebounce == InitDebounce /\ [][NextDebounce]_vars

InitThrottle == InitThrottleVars /\ IdleExcept("throttle")
SpecThrottle == InitThrottle /\ [][NextThrottle]_vars

InitVaults == InitVaultsVars /\ IdleExcept("vaults")
SpecVaults == InitVaults /\ [][NextVaults]_vars

InitWithdraw == InitWithdrawVars /\ IdleExcept("withdraw")
SpecWithdraw == InitWithdraw /\ [][NextWithdraw]_vars

InitDeposit == InitDepositVars /\ IdleExcept("deposit")
SpecDeposit == InitDeposit /\ [][NextDeposit]_vars

\* A deposit call or a withdraw call
InitTransactions == InitDeposit \/ InitWithdraw
NextTransactions == NextDeposit \/ NextWithdraw
SpecTransactions == InitTransactions /\ [][NextTransactions]_vars

InitAllVaults == InitAllVaultsVars /\ IdleExcept("allvaults")
SpecAllVaults == InitAllVaults /\ [][NextAllVaults]_vars

InitMeasure == InitMeasureVars /\ IdleExcept("measure")
SpecMeasure == InitMeasure /\ [][NextMeasure]_vars

InitWrappers == InitWrappersVars /\ IdleExcept("wrappers")
SpecWrappers == InitWrappers /\ [][NextWrappers]_vars

Init ==
    \/ InitBatch \/ InitRetry \/ InitTimeout \/ InitDebounce \/ InitThrottle
    \/ InitVaults \/ InitWithdraw \/ InitDeposit
    \/ InitAllVaults
    \/ InitMeasure
    \/ InitWrappers
Next ==
    \/ NextBatch \/ NextRetry \/ NextTimeout \/ NextDebounce \/ NextThrottle
    \/ NextVaults \/ NextWithdraw \/ NextDeposit
    \/ NextAllVaults
    \/ NextMeasure
    \/ NextWrappers
Spec == Init /\ [][Next]_vars

\* ------------------------------------------------------------------------
\* Properties

Range(q) == {q[k] : k \in 1..Len(q)}

\* C1: with a concurrency of at least 1, processor is invoked at most once
\* per item at any time, and when batchProcess resolves it resolves with
\* exactly one result per item, result k being processor's result for item
\* k, every item having been processed exactly once.
C1_ResultsInInputOrder ==
    concurrency >= 1 =>
        /\ \A k \in DOMAIN invoked : invoked[k] <= 1
        /\ bpc = "resolved" =>
              /\ Len(results) = Len(items)
              /\ \A k \in 1..Len(items) : results[k] = Processor(items[k])
              /\ \A k \in 1..Len(items) : invoked[k] = 1 /\ task[k] = "fulfilled"

\* A batch of three distinct-valued items in chunks of two has resolved
\* although the promises settled out of input order.
C1_Witness ==
    /\ bpc = "resolved"
    /\ concurrency = 2
    /\ Len(items) >= 3
    /\ items[1] # items[2]
    /\ \E a, b \in 1..Len(settleOrder) : a < b /\ settleOrder[a] > settleOrder[b]

\* C2: with a concurrency limit C >= 1, the number of processor promises
\* that were started and have not settled never exceeds C.
C2_InFlightAtMostC == concurrency >= 1 => InFlight <= concurrency

\* A later chunk is running at the limit.
C2_Witness ==
    /\ concurrency >= 2
    /\ i > 0
    /\ Len(items) >= 2 * concurrency
    /\ InFlight = concurrency

\* C3: once a processor promise has rejected, batchProcess never resolves
\* (no partial results reach the caller) and never calls processor again,
\* and the promise it returned is rejected.
C3_FailFast ==
    /\ [][("rejected" \in Range(task)) => (bpc' # "resolved" /\ invoked' = invoked)]_vars
    /\ ("rejected" \in Range(task)) ~> (bpc = "rejected")

\* The batch was rejected with results of an earlier chunk already collected
\* and a later chunk never started.
C3_Witness ==
    /\ bpc = "rejected"
    /\ bthrown.kind = "ItemError"
    /\ Len(results) > 0
    /\ "idle" \in Range(task)

\* C4: operation is invoked at most maxRetries + 1 times, the attempt
\* indices being 0..maxRetries, and retry throws only after exactly
\* maxRetries + 1 invocations, all of which failed.
C4_AtMostRPlusOneAttempts ==
    /\ calls <= maxRetries + 1
    /\ rpc = "await" => calls = attempt + 1 /\ attempt \in 0..maxRetries
    /\ rpc = "thrown" => calls = maxRetries + 1 /\ failures = maxRetries + 1

\* An always-failing operation with maxRetries = 2 was given up after three
\* attempts.
C4_Witness == rpc = "thrown" /\ maxRetries = 2 /\ calls = 3

\* C5: the k-th wait of a retry call (after failed attempt k - 1) lasts
\* baseDelay * 2^(k-1); with maxRetries = 3 and baseDelay = 1000 the waits
\* of an always-failing operation are 1000, 2000, 4000.
C5_ExponentialBackoff ==
    /\ \A k \in 1..Len(waits) : waits[k] = baseDelay * (2 ^ (k - 1))
    /\ (maxRetries = 3 /\ baseDelay = 1000 /\ rpc = "thrown")
          => waits = <<1000, 2000, 4000>>

C5_Witness ==
    /\ maxRetries = 3
    /\ baseDelay = 1000
    /\ rpc = "thrown"
    /\ Len(waits) = 3

\* C6: when retry returns, it returns the value of the one successful
\* attempt, which was the last invocation: k failures, k + 1 invocations and
\* k waits; and after it returned, operation is not invoked again.
C6_FirstSuccessEndsCall ==
    /\ [](rpc = "returned" =>
            /\ calls = failures + 1
            /\ Len(waits) = failures
            /\ failures <= maxRetries
            /\ rvalue = OpValue(failures)
            /\ inflight = 0)
    /\ [][rpc = "returned" => calls' = calls]_vars

\* The operation failed twice and then succeeded.
C6_Witness == rpc = "returned" /\ failures = 2 /\ calls = 3 /\ maxRetries = 3

\* C7: retry throws only after maxRetries + 1 failed attempts, and what it
\* throws is an OperationFailed error wrapping the last failure.  The code
\* rethrows the caught error itself, so no OperationFailed error is ever
\* surfaced.
C7_ThrowsOperationFailed ==
    rpc = "thrown" =>
        /\ failures = maxRetries + 1
        /\ rthrown = [kind |-> "OperationFailed", of |-> OpError(maxRetries)]

\* C8: if the promise argument fulfilled before the deadline, the promise
\* timeout returned is fulfilled with the same value, also after the
\* deadline timer has fired.
C8_ResolvesBeforeDeadline ==
    (tpc = "raced" /\ pstate = "fulfilled" /\ ptime < ms) => race = Fulfilled(pvalue)

\* The promise fulfilled strictly between the call and the deadline, and the
\* deadline timer has fired since.
C8_Witness ==
    /\ tpc = "raced"
    /\ pstate = "fulfilled"
    /\ 0 < ptime /\ ptime < ms
    /\ ~tarmed
    /\ race = Fulfilled(pvalue)

\* C9: a Timeout rejection never happens before ms has elapsed, and once the
\* deadline timer has fired on a promise argument that had not settled by
\* then, the promise timeout returned is rejected with the Timeout error.
C9_TimeoutAtOrAfterMs ==
    tpc = "raced" =>
        /\ (race.state = "rejected" /\ race.error.kind = "Timeout") => racetime >= ms
        /\ (~tarmed /\ (pstate = "pending" \/ ptime > ms))
              => race = Rejected(TimeoutError(ms))

\* The deadline passed on a pending promise, which settled later.
C9_Witness ==
    /\ tpc = "raced"
    /\ ~tarmed
    /\ pstate = "fulfilled"
    /\ ptime > ms
    /\ race = Rejected(TimeoutError(ms))
    /\ racetime = ms

\* C10: func is only ever called for the latest invocation of the wrapper,
\* with that invocation's arguments and wait after it: no invocation was
\* made between the one a call of func stems from and that call.
C10_OnlyLatestInvocationRuns ==
    \A k \in 1..Len(fcalls) :
        /\ fcalls[k].seen = fcalls[k].inv
        /\ fcalls[k].args = invs[fcalls[k].inv].args
        /\ fcalls[k].time = invs[fcalls[k].inv].time + wait

\* C11: func is called exactly for the invocations made while unlocked, at
\* once and with their arguments; after a call of func the wrapper stays
\* locked until limit has elapsed, and it is locked only within limit of a
\* call of func.
C11_LeadingCallThenLocked ==
    /\ \A k \in 1..Len(hcalls) :
          /\ hcalls[k].time = hinvs[hcalls[k].inv].time
          /\ hcalls[k].args = hinvs[hcalls[k].inv].args
          /\ ~hinvs[hcalls[k].inv].locked
          /\ hnow < hcalls[k].time + limit => inThrottle
    /\ \A n \in 1..Len(hinvs) :
          ~hinvs[n].locked => \E k \in 1..Len(hcalls) : hcalls[k].inv = n
    /\ inThrottle => \E k \in 1..Len(hcalls) : hnow <= hcalls[k].time + limit

\* C12: any two calls of func through one throttled wrapper are at least
\* limit apart.
C12_CallsAtLeastLimitApart ==
    \A j, k \in 1..Len(hcalls) : j < k => hcalls[k].time - hcalls[j].time >= limit

\* C13: a call with concurrency <= 0 starts no transformation, does not
\* resolve, and is rejected with an InvalidArgument error.
C13_NonPositiveConcurrencyRejected ==
    (bpc # "off" /\ concurrency <= 0) =>
        /\ \A k \in DOMAIN invoked : invoked[k] = 0
        /\ bpc # "resolved"
        /\ bpc = "rejected" => bthrown.kind = "InvalidArgument"

\* Chunk number of item index k under a concurrency c >= 1.
ChunkOf(k, c) == (k - 1) \div c
Settled(k) == task[k] \in {"fulfilled", "rejected"}
Expected == [k \in 1..Len(items) |-> Processor(items[k])]

\* C14: with concurrency >= N all N transformations are started in one step,
\* before any has settled; with concurrency = 1 a transformation is started
\* only after all earlier ones have fulfilled and at most one is pending;
\* and in both cases a resolved batch yields processor's results in input
\* order.
C14_FanOutAndSequentialAgree ==
    /\ (concurrency >= 1 /\ concurrency >= Len(items)) =>
          /\ \A j, k \in DOMAIN task : task[j] = "idle" <=> task[k] = "idle"
          /\ bpc = "resolved" => results = Expected
    /\ concurrency = 1 =>
          /\ InFlight <= 1
          /\ \A j, k \in DOMAIN task :
                (j < k /\ task[k] # "idle") => task[j] = "fulfilled"
          /\ bpc = "resolved" => results = Expected

\* Three items fanned out at once have resolved, their promises having
\* settled out of input order.
C14_Witness ==
    /\ bpc = "resolved"
    /\ Len(items) = 3
    /\ concurrency = 3
    /\ settleOrder[1] = 3

\* The item whose promise was the first to reject.
FirstRejected ==
    LET pos == {p \in 1..Len(settleOrder) : task[settleOrder[p]] = "rejected"}
    IN  settleOrder[CHOOSE p \in pos : \A q \in pos : p <= q]

\* C15: the rejection batchProcess's caller receives is the error of the
\* item whose promise rejected first, as it is.
C15_FirstFailureUnwrapped == bpc = "rejected" => bthrown = ItemError(FirstRejected)

\* Two promises of one chunk rejected before the batch was rejected, the
\* later item first.
C15_Witness ==
    /\ bpc = "rejected"
    /\ \E j, k \in DOMAIN task :
          /\ j < k /\ task[j] = "rejected" /\ task[k] = "rejected"
          /\ bthrown = ItemError(k)

\* C19: with a concurrency of at least 1, the transformations of one chunk
\* are started in one step, and a transformation of a later chunk is started
\* only when every transformation of the earlier chunks has settled.
C19_ChunksStrictlySequential ==
    concurrency >= 1 =>
        \A j, k \in DOMAIN task :
            /\ ChunkOf(j, concurrency) = ChunkOf(k, concurrency)
                  => (task[j] = "idle" <=> task[k] = "idle")
            /\ (ChunkOf(j, concurrency) < ChunkOf(k, concurrency) /\ task[k] # "idle")
                  => Settled(j)

\* The second chunk of two is running after the first settled in reverse
\* order.
C19_Witness ==
    /\ concurrency = 2
    /\ Len(items) = 4
    /\ settleOrder = <<2, 1>>
    /\ task[3] = "pending" /\ task[4] = "pending"

\* C20: at most one attempt of the operation is in flight, and an attempt is
\* in flight only after every earlier attempt has failed and the backoff
\* wait after each of them has elapsed.
C20_AttemptsSequential ==
    /\ inflight <= 1
    /\ rpc = "await" =>
          /\ inflight = 1
          /\ failures = attempt
          /\ calls = failures + 1
          /\ Len(waits) = failures
          /\ attempt > 0 => rnow >= sleepDue /\ sleepDue = sleepFrom + Backoff(baseDelay, attempt - 1)
    /\ rpc # "await" => inflight = 0

\* The third attempt is in flight after two failures and two waits.
C20_Witness == rpc = "await" /\ attempt = 2 /\ baseDelay > 0 /\ Len(waits) = 2

\* C16: getVaults falls back to the subgraph when the primary API call throws
\* or returns an unsuccessful response, so whenever getVaults has returned
\* after such a failure, the result still carries vault data (success with a
\* data page).  The code returns the failure instead.
C16_FallsBackToSubgraph ==
    (gpc = "returned" /\ gapi \in ApiFailures) =>
        (gresult.success /\ gresult.edges >= 0)

\* C17: whenever the LP balance read from the vault is less than
\* params.shares, no withdrawal transaction is prepared or sent, and the call
\* has returned success = false with the insufficient-LP-balance error.
C17_InsufficientBalanceStopsWithdrawal ==
    (wbalance >= 0 /\ wbalance < wshares) =>
        /\ wprepared = 0
        /\ wsent = 0
        /\ wpc = "returned"
        /\ wresult = Failure("Insufficient LP token balance")

C17_Witness ==
    /\ wbalance = 1 /\ wshares = 2 /\ wpc = "returned"
    /\ ~wresult.success

\* C18: the deposit transaction is sent only after each token's allowance
\* covers the desired amount or an approval for it was sent and its receipt
\* obtained; once an approval has failed, no deposit transaction is sent and
\* the call has returned success = false; and once a balance read is below
\* the desired amount, no deposit transaction is sent and the call has
\* returned success = false as soon as the read of the other balance is in.
C18_DepositOnlyAfterApprovals ==
    /\ psent > 0 =>
          \A t \in Tokens :
              \/ pallowance[t] >= pamount[t] /\ pallowance[t] >= 0
              \/ papproval[t] = "confirmed"
    /\ (\E t \in Tokens : papproval[t] = "failed") =>
          /\ psent = 0
          /\ ppc = "returned"
          /\ ~presult.success
    /\ (\E t \in Tokens : pbalance[t] >= 0 /\ pbalance[t] < pamount[t]) =>
          /\ psent = 0
          /\ \/ ppc = "returned" /\ ~presult.success
             \/ ppc = "balances" /\ pbalance[1] = -1

C18_Witness ==
    /\ psent > 0
    /\ papproval[0] = "confirmed"
    /\ pallowance[1] >= pamount[1] /\ pamount[1] > 0
    /\ papproval[1] = "none"
    /\ presult.success

\* The outcome of the promise argument, as a settlement of the race.
PromiseOutcome ==
    IF pstate = "fulfilled" THEN Fulfilled(pvalue) ELSE Rejected(PromiseError)

\* The race is decided by the first of the two to settle.
C21_DecidedByFirst ==
    tpc = "raced" =>
        /\ race.state = "pending" => (pstate = "pending" /\ tarmed)
        /\ race.state # "pending" =>
              \/ /\ pstate # "pending"
                 /\ race = PromiseOutcome
                 /\ racetime = ptime
                 /\ tarmed \/ ptime <= tdue
              \/ /\ ~tarmed
                 /\ race = Rejected(TimeoutError(ms))
                 /\ racetime = tdue
                 /\ pstate = "pending" \/ ptime >= tdue
        \* the deadline timer is armed until it is due, whoever won
        /\ tnow < tdue => tarmed

\* A decided race never changes, whatever the loser does later.
C21_NeverChanges ==
    (tpc = "raced" /\ race.state # "pending") =>
        (race' = race /\ racetime' = racetime)

\* C21: the outcome of timeout is decided exactly once, by whichever of the
\* promise argument and the deadline timer settles first, and never changes
\* afterwards; the loser is not cancelled (the timer stays armed until it is
\* due, the promise argument still settles after a Timeout) and its later
\* settlement does not reach the caller.
C21_DecidedOnceLoserIgnored == [](C21_DecidedByFirst) /\ [][C21_NeverChanges]_vars

\* The deadline fired first; the promise argument failed afterwards and the
\* caller still has the Timeout decided at ms.
C21_Witness ==
    /\ tpc = "raced"
    /\ ~tarmed
    /\ pstate = "rejected"
    /\ ptime > ms
    /\ race = Rejected(TimeoutError(ms))
    /\ racetime = ms

\* C24: if the promise argument rejected before the deadline, the promise
\* timeout returned is rejected with that same error, not with the Timeout
\* error, also after the deadline timer has fired.
C24_RejectionPassedThrough ==
    (tpc = "raced" /\ pstate = "rejected" /\ ptime < ms) =>
        (race = Rejected(PromiseError) /\ race.error.kind # "Timeout")

\* The promise rejected strictly between the call and the deadline, and the
\* deadline timer has fired since.
C24_Witness ==
    /\ tpc = "raced"
    /\ pstate = "rejected"
    /\ 0 < ptime /\ ptime < ms
    /\ ~tarmed
    /\ race = Rejected(PromiseError)

\* C22: a debounced or throttled wrapper never has two timers armed at the
\* same time, and a locked throttled wrapper has exactly one.  A func that
\* invokes its own wrapper breaks this: debounce forgets the handle of the
\* timer armed during func, throttle arms one unlock timer per nested call.
C22_AtMostOneTimerArmed ==
    /\ Cardinality(timers) <= 1
    /\ Cardinality(htimers) <= 1
    /\ inThrottle => Cardinality(htimers) = 1

\* The calls of func made by the step: the entries the step appends to hcalls.
NewCalls == {k \in 1..Len(hcalls') : k > Len(hcalls)}

\* A step in which every call of func threw leaves the wrapper unlocked with
\* no timer armed, and the wrapper gets locked only by a step in which a call
\* of func returned.
C27_LockFollowsReturn ==
    /\ (NewCalls # {} /\ \A k \in NewCalls : hcalls'[k].threw) =>
          (~inThrottle' /\ htimers' = htimers)
    /\ (~inThrottle /\ inThrottle') =>
          \E k \in NewCalls : ~hcalls'[k].threw

\* No invocation made while the wrapper is unlocked is dropped, the one
\* following a throwing call and the one made from inside func included.
C27_UnlockedNeverDropped ==
    \A n \in 1..Len(hinvs) :
        ~hinvs[n].locked => \E k \in 1..Len(hcalls) : hcalls[k].inv = n

\* C27: a throttled wrapper enters the locked state only after func returned
\* normally: when func throws, the wrapper stays unlocked and no timer is
\* armed, so the next invocation calls func again at once; and an invocation
\* made from inside func's own execution is not dropped.
C27_LocksOnlyAfterNormalReturn ==
    [](C27_UnlockedNeverDropped) /\ [][C27_LockFollowsReturn]_vars

\* func threw, and the next invocation, at the same instant, ran func again;
\* the wrapper was never locked.
C27_Witness ==
    /\ hpc = "on"
    /\ Len(hcalls) >= 2
    /\ hcalls[1].threw
    /\ hcalls[2].time = hcalls[1].time
    /\ hcalls[2].inv = hcalls[1].inv + 1
    /\ ~hinvs[hcalls[2].inv].locked

RECURSIVE SumSeq(_)
SumSeq(q) == IF q = <<>> THEN 0 ELSE Head(q) + SumSeq(Tail(q))

\* C26: no backoff wait follows the final failed attempt: the failure of
\* attempt maxRetries ends the call at once, so a call in which every attempt
\* failed made maxRetries + 1 attempts and exactly maxRetries waits, which
\* total baseDelay * (2^maxRetries - 1); with maxRetries = 0 that is one
\* attempt and no wait.
C26_NoWaitAfterFinalFailure ==
    /\ failures = maxRetries + 1 => rpc = "thrown"
    /\ rpc = "thrown" =>
          /\ calls = maxRetries + 1
          /\ failures = maxRetries + 1
          /\ Len(waits) = maxRetries
          /\ SumSeq(waits) = baseDelay * (Pow2(maxRetries) - 1)
          /\ maxRetries = 0 => (calls = 1 /\ waits = <<>>)

\* Every attempt of a call with several retries and a positive delay failed.
C26_Witness ==
    /\ rpc = "thrown"
    /\ maxRetries >= 2
    /\ baseDelay > 0
    /\ Len(waits) = maxRetries
    /\ SumSeq(waits) = baseDelay * (Pow2(maxRetries) - 1)

\* The position of item k's settlement in the settling order (0: not settled).
SettledAt(k) ==
    IF \E n \in 1..Len(settleOrder) : settleOrder[n] = k
    THEN CHOOSE n \in 1..Len(settleOrder) : settleOrder[n] = k
    ELSE 0

\* As soon as one promise of the chunk has rejected, Promise.all has rejected
\* and the call is at, or past, the throwing await, whatever the state of the
\* chunk's other promises; all promises of the chunk had been started.
C25_RejectsWithoutWaiting ==
    (\E k \in DOMAIN task : task[k] = "rejected") =>
        /\ allState = "rejected"
        /\ bpc \in {"await", "rejected"}
        /\ \A j \in 1..Len(batch) : task[batch[j]] # "idle" /\ invoked[batch[j]] >= 1

\* After the call has rejected nothing changes its outcome, while the
\* chunk's other promises are still free to settle.
C25_OutcomeKept ==
    bpc = "rejected" => (bpc' = bpc /\ bthrown' = bthrown /\ results' = results)

\* C25: when a transformation of a chunk fails, batchProcess rejects at that
\* moment without waiting for the chunk's other transformations: all of them
\* had been started, none is cancelled, and they may settle after the
\* rejection without changing the outcome.
C25_FailureDoesNotWaitForChunk ==
    [](C25_RejectsWithoutWaiting) /\ [][C25_OutcomeKept]_vars

\* The call has rejected with the error of the first failure while one
\* promise of the chunk settled after that failure and another is pending.
C25_Witness ==
    /\ bpc = "rejected"
    /\ \E r, f, q \in DOMAIN task :
          /\ {r, f, q} \subseteq {batch[j] : j \in 1..Len(batch)}
          /\ task[r] = "rejected" /\ bthrown = ItemError(r)
          /\ task[f] = "fulfilled" /\ SettledAt(f) > SettledAt(r)
          /\ task[q] = "pending"

\* The edges of the pages delivered so far, in page order.
RECURSIVE PagesEdges(_, _)
PagesEdges(reqs, pages) ==
    IF pages = <<>> THEN <<>>
    ELSE PagesEdges(SubSeq(reqs, 1, Len(pages) - 1), SubSeq(pages, 1, Len(pages) - 1))
         \o (IF pages[Len(pages)].ok
             THEN Edges(reqs[Len(pages)], pages[Len(pages)].edges) ELSE <<>>)

\* Pages are requested one after another, each with the endCursor of the page
\* before it, and none after a page that failed or had hasNextPage = false;
\* what getAllVaults returns is success = true with the edges of the pages
\* fetched, in page order, and their number.
C28_PagesInSequence ==
    /\ Len(arequests) - Len(apages) = (IF apc \in {"await", "rejected"} THEN 1 ELSE 0)
    /\ \A k \in 1..Len(arequests) :
          /\ k = 1 => arequests[k] = 0
          /\ k > 1 => /\ apages[k - 1].ok
                      /\ apages[k - 1].info.hasNextPage
                      /\ arequests[k] = apages[k - 1].info.endCursor
    /\ apc = "returned" =>
          /\ apages # <<>>
          /\ ~apages[Len(apages)].ok \/ ~apages[Len(apages)].info.hasNextPage
          /\ aresult.success
          /\ aresult.data = PagesEdges(arequests, apages)
          /\ aresult.totalCount = Len(aresult.data)

\* C28 as stated: pages are requested in sequence and getAllVaults always
\* ends by returning success = true; a page request that fails never makes
\* getAllVaults fail.  An unsupported chainId makes getVaults reject, and
\* getAllVaults with it.
C28_FailedPageNeverSurfaced ==
    /\ C28_PagesInSequence
    /\ apc # "rejected"

\* C28, amended: for a chainId that has a client, pages are requested in
\* sequence, a page that getVaults reports as failed ends the loop, and
\* getAllVaults returns success = true with the edges fetched so far; for a
\* chainId without a client the first getVaults call rejects and getAllVaults
\* rejects with it, having fetched nothing.
C28_FailedPageEndsLoop ==
    /\ C28_PagesInSequence
    /\ achain => apc # "rejected"
    /\ apc = "rejected" => (~achain /\ Len(arequests) = 1 /\ aall = <<>>)

\* Two pages were fetched, the third request failed, and getAllVaults
\* returned the edges of the two pages.
C28_Witness ==
    /\ apc = "returned"
    /\ Len(apages) = 3
    /\ apages[1].edges > 0 /\ apages[2].edges > 0
    /\ ~apages[3].ok
    /\ aresult.success
    /\ aresult.totalCount = apages[1].edges + apages[2].edges
    /\ aresult.data = [j \in 1..aresult.totalCount |-> j]

\* What a call that has returned holds: success with a hash and no error
\* after the transaction was sent, or failure with an error and no hash.
ReturnedWell(pc, res, sent) ==
    pc = "returned" =>
        \/ res = Success /\ sent = 1
        \/ ~res.success /\ ~res.hash /\ res.error \notin {"none", "pending"}

\* Neither call ever rejects.
C29_NoRejection ==
    /\ ppc # "rejected" /\ ReturnedWell(ppc, presult, psent)
    /\ wpc # "rejected" /\ ReturnedWell(wpc, wresult, wsent)

\* A call ends in one step from wherever a step fails, and success is only
\* returned from the receipt wait of a transaction that was sent.
C29_ReturnsFromEveryStep ==
    /\ (ppc # "returned" /\ ppc' = "returned") =>
          (presult'.success => (ppc = "receipt" /\ psent = 1))
    /\ (wpc # "returned" /\ wpc' = "returned") =>
          (wresult'.success => (wpc = "receipt" /\ wsent = 1))
    /\ ppc = "returned" => (ppc' = ppc /\ presult' = presult)
    /\ wpc = "returned" => (wpc' = wpc /\ wresult' = wresult)

\* C29: deposit and withdraw never reject: a failure at any step is returned
\* as success = false with an error and without a transaction hash, and
\* success = true is returned only after the transaction was sent, its hash
\* obtained and the receipt wait completed.
C29_FailuresReturnedNotThrown == [](C29_NoRejection) /\ [][C29_ReturnsFromEveryStep]_vars

\* The deposit transaction was sent but the receipt wait failed: the call
\* returned a failure without the hash.
C29_Witness ==
    /\ ppc = "returned"
    /\ psent = 1
    /\ presult = Failure("waitForTransactionReceipt")

\* Every ended measureAsync call returned fn's result or rethrew fn's own
\* error.
C30_OutcomeIsFns ==
    \A c \in DOMAIN mcalls :
        /\ mcalls[c].fn = "fulfilled" =>
              (mcalls[c].state = "returned" /\ mcalls[c].out = "result")
        /\ mcalls[c].fn = "rejected" =>
              (mcalls[c].state = "rejected" /\ mcalls[c].out = "FnError")

\* The step that ends a measureAsync call leaves no entry for its name.
C30_NoEntryLeftBehind ==
    \A c \in DOMAIN mcalls :
        (mcalls[c].state = "running" /\ mcalls'[c].state # "running")
            => mtimers'[mcalls[c].name] = -1

\* C30: every measureAsync call returns fn's result or rethrows fn's own
\* error, and the call leaves no entry for its name in the timers map when
\* it ends, also when calls with the same name overlap.  With overlapping
\* calls the first to end deletes the entry the others share, and their
\* endTimer throws instead; a measure or endTimer call on the same name in
\* between does the same.
C30_MeasureAsyncTransparent ==
    [](C30_OutcomeIsFns) /\ [][C30_NoEntryLeftBehind]_vars

\* What belongs to wrapper w: its closure state, its armed timers, its
\* invocations and the calls of func it made.
OwnState(w) ==
    [handle |-> xhandle[w], lock |-> xlock[w],
     timers |-> {t \in xtimers : t.of = w},
     invs |-> {k \in 1..Len(xinvs) : xinvs[k].of = w},
     calls |-> {k \in 1..Len(xcalls) : xcalls[k].of = w}]
OwnStateNext(w) ==
    [handle |-> xhandle'[w], lock |-> xlock'[w],
     timers |-> {t \in xtimers' : t.of = w},
     invs |-> {k \in 1..Len(xinvs') : xinvs'[k].of = w},
     calls |-> {k \in 1..Len(xcalls') : xcalls'[k].of = w}]

\* A step of one wrapper leaves what belongs to the other wrappers alone.
C23_OthersUntouched ==
    \A w \in DOMAIN xhandle : xactor' # w => OwnStateNext(w) = OwnState(w)

\* Each wrapper serves its own invocations as if it were alone.  A call of
\* func stems from an invocation of the same wrapper, a debounced one wait
\* after it, a throttled one at once; a debounced invocation not followed by
\* another of the same wrapper within wait is called once wait has passed; a
\* throttled invocation not preceded within limit by a call of the same
\* wrapper that returned is called.
C23_ServedAsIfAlone ==
    /\ \A c \in 1..Len(xcalls) :
          /\ xinvs[xcalls[c].inv].of = xcalls[c].of
          /\ xcalls[c].time = xinvs[xcalls[c].inv].time
                + (IF xcalls[c].of \in Debounced THEN xwait[xcalls[c].of] ELSE 0)
    /\ \A k \in 1..Len(xinvs) :
          LET w == xinvs[k].of
              due == xinvs[k].time + xwait[w]
          IN  /\ (/\ w \in Debounced
                  /\ xnow > due
                  /\ \A j \in 1..Len(xinvs) :
                        (j > k /\ xinvs[j].of = w) => xinvs[j].time > due)
                    => \E c \in 1..Len(xcalls) : xcalls[c].inv = k
              /\ (/\ w \in Throttled
                  /\ \A c \in 1..Len(xcalls) :
                        (xcalls[c].of = w /\ xcalls[c].inv < k /\ ~xcalls[c].threw)
                            => xcalls[c].time + xwait[w] < xinvs[k].time)
                    => \E c \in 1..Len(xcalls) : xcalls[c].inv = k

\* C23: the timer or lock state of a wrapper is private to it: invocations
\* of one wrapper never cancel, delay, drop or trigger a call made through
\* another wrapper, also when both wrap the same func.
C23_WrapperStatePrivate == [](C23_ServedAsIfAlone) /\ [][C23_OthersUntouched]_vars

\* The second debounced wrapper was invoked while the timer of the first
\* was armed, and each of the two invocations led to its own call of func
\* at its own due time.
C23_Witness ==
    /\ Len(xinvs) >= 2
    /\ xinvs[1].of = 1 /\ xinvs[2].of = 2
    /\ xinvs[2].time < xinvs[1].time + xwait[1]
    /\ \E c, d \in 1..Len(xcalls) :
          /\ xcalls[c].inv = 1 /\ xcalls[c].time = xinvs[1].time + xwait[1]
          /\ xcalls[d].inv = 2 /\ xcalls[d].time = xinvs[2].time + xwait[2]

====
